---- MODULE Spec2Model ----
(***************************************************************************)
(* State-machine model of the simulation core of the terminal incremental  *)
(* game: the resource ledger (game/resources.py), the structure and worker *)
(* registries (engine/buildings.py, game/units.py), the upgrade graph      *)
(* (game/upgrades.py) and the coordinator's save/load (game/game_state.py).*)
(*                                                                         *)
(* Amounts are Python floats in the source.  Every amount the model        *)
(* handles is a multiple of 1/Den, Den = 2^MaxTimes, so amounts are kept   *)
(* as integer numerators over Den and all arithmetic is exact, as it is in *)
(* binary floating point for these values.                                 *)
(***************************************************************************)
EXTENDS Integers, Sequences, FiniteSets, TLC

VARIABLES
    resources,   \* ResourceManager.resources : name -> Resource
    buildings,   \* BuildingManager.buildings : name -> Building
    units,       \* UnitManager.units         : name -> Unit
    upgrades,    \* UpgradeManager.upgrades   : name -> Upgrade
    metadata,    \* GameState.metadata (total_playtime, tick_count)
    save_file,   \* content of the save file (None while there is no file)
    saved_from,  \* history: the coordinator's state when save_file was written
    game2,       \* a second GameState, loaded from save_file (None before)
    purchase_log,\* history: upgrade name -> purchase calls that returned True
    observers,   \* the managers' callback lists: transaction_callbacks,
                 \* build_callbacks, recruit_callbacks, purchase_callbacks
    tick_system, \* the TickSystem object of the game loop
    clock,       \* time.time(), in units of 1/Den second
    tick_log,    \* history of the scheduler: running time, ticks, callbacks run
    sol_timer,   \* ColonyGame.sol_timer, in seconds
    last         \* the last call: operation, arguments, result, observers
                 \* notified and the state before the call

vars == <<resources, buildings, units, upgrades, metadata, save_file, saved_from,
          game2, purchase_log, observers, tick_system, clock, tick_log, sol_timer,
          last>>

\* The scheduler's and the application's variables, which the simulation core
\* never touches.
sched == <<tick_system, clock, tick_log, sol_timer>>

(***************************** bounds **************************************)
MaxTimes == 2      \* purchases of an unlimited repeatable upgrade explored
MaxAmount == 4     \* largest amount of an uncapped resource explored
MaxDelta == 2      \* largest amount argument of a ledger call
MaxRate == 1       \* largest generation rate explored
MaxDt == 2         \* largest delta_time of generate
MaxN == 2          \* largest count argument of build/recruit/demolish/dismiss
MaxGenRate == 3    \* largest generation rate the registries' ticks are explored with
MaxTicks == 2      \* calls of GameState.update explored
MaxClock == 9      \* latest time.time() explored
MaxSleep == 2      \* longest time between two steps of the loop
MaxObservers == 3  \* most observers registered with one manager

(***************************** helpers *************************************)
Min(a, b) == IF a < b THEN a ELSE b
Max(a, b) == IF a > b THEN a ELSE b

RECURSIVE Pow(_, _)
Pow(b, e) == IF e = 0 THEN 1 ELSE b * Pow(b, e - 1)

\* Denominator of the fixed-point amounts.
Den == Pow(2, MaxTimes)

\* Optional[...] values: None, or a one-element tuple holding the value.
None == << >>
Some(v) == <<v>>

EmptyDict == [k \in {} |-> 0]

\* d[k] = v on a dict d.
Store(d, k, v) == [x \in DOMAIN d \cup {k} |-> IF x = k THEN v ELSE d[x]]

\* Python dicts iterate in insertion order; names are inserted in this order
\* (the colony's resources in the order its cost mappings list them).
NameOrder == <<"gold", "wood", "research", "stone",
               "farm", "mine", "tower", "castle",
               "peasant", "miner", "knight",
               "basic", "advanced", "training", "drill", "elite", "ghost_dep",
               "nonexistent",
               "metal", "energy", "biomass", "colonists",
               "solar_array", "mining_rig", "reclamation_bay", "hab_module",
               "research_terminal",
               "efficient_extraction", "closed_loop_bioreactor",
               "fusion_ignition", "redundant_systems">>

\* d.keys() / d.items() of a dict d, in iteration order.
keys(d) == SelectSeq(NameOrder, LAMBDA n : n \in DOMAIN d)

(***************************** ResourceManager *****************************)
\* A transaction observer call: callback(name, amount, transaction_type).
Note(name, amount, kind) == [name |-> name, amount |-> amount, kind |-> kind]

get_amount(res, name) ==
    IF name \in DOMAIN res THEN res[name].amount ELSE 0

\* set_amount that stores the amount under a name it does not know.
set_amountImplicit(res, name, amount, clamp) ==
    LET known == [n \in DOMAIN res \cup {name} |->
                    IF n \in DOMAIN res THEN res[n]
                    ELSE [name |-> name, amount |-> 0, max_storage |-> None,
                          generation_rate |-> 0, unlocked |-> TRUE]]
        old_amount == known[name].amount
        clamped == IF clamp /\ known[name].max_storage # None
                   THEN Min(amount, known[name].max_storage[1])
                   ELSE amount
        new == Max(0, clamped)
    IN [resources |-> [known EXCEPT ![name].amount = new],
        ret |-> TRUE, val |-> 0,
        notes |-> << Note(name, new - old_amount, "set") >>]

set_amount(res, name, amount, clamp) ==
    IF name \notin DOMAIN res
    THEN [resources |-> res, ret |-> FALSE, val |-> 0, notes |-> << >>]
    ELSE LET old_amount == res[name].amount
             clamped == IF clamp /\ res[name].max_storage # None
                        THEN Min(amount, res[name].max_storage[1])
                        ELSE amount
             new == Max(0, clamped)
         IN [resources |-> [res EXCEPT ![name].amount = new],
             ret |-> TRUE, val |-> 0,
             notes |-> << Note(name, new - old_amount, "set") >>]

\* add without the clamp to max_storage.
addNoClamp(res, name, amount) ==
    IF name \notin DOMAIN res
    THEN [resources |-> res, ret |-> FALSE, val |-> 0, notes |-> << >>]
    ELSE [resources |-> [res EXCEPT ![name].amount = @ + amount],
          ret |-> TRUE, val |-> amount,
          notes |-> << Note(name, amount, "add") >>]

\* add returning, and reporting to observers, the amount it was asked for.
addReportsRequested(res, name, amount) ==
    IF name \notin DOMAIN res
    THEN [resources |-> res, ret |-> FALSE, val |-> 0, notes |-> << >>]
    ELSE LET raw == res[name].amount + amount
             new == IF res[name].max_storage # None
                    THEN Min(raw, res[name].max_storage[1])
                    ELSE raw
         IN [resources |-> [res EXCEPT ![name].amount = new],
             ret |-> TRUE, val |-> amount,
             notes |-> << Note(name, amount, "add") >>]

add(res, name, amount) ==
    IF name \notin DOMAIN res
    THEN [resources |-> res, ret |-> FALSE, val |-> 0, notes |-> << >>]
    ELSE LET old_amount == res[name].amount
             raw == old_amount + amount
             new == IF res[name].max_storage # None
                    THEN Min(raw, res[name].max_storage[1])
                    ELSE raw
             actual_added == new - old_amount
         IN [resources |-> [res EXCEPT ![name].amount = new],
             ret |-> TRUE, val |-> actual_added,
             notes |-> << Note(name, actual_added, "add") >>]

\* spend that takes what there is when the amount falls short.
spendPartial(res, name, amount) ==
    IF name \notin DOMAIN res
    THEN [resources |-> res, ret |-> FALSE, val |-> 0, notes |-> << >>]
    ELSE LET taken == Min(amount, res[name].amount)
         IN [resources |-> [res EXCEPT ![name].amount = @ - taken],
             ret |-> res[name].amount >= amount, val |-> 0,
             notes |-> << Note(name, 0 - taken, "spend") >>]

spend(res, name, amount) ==
    IF name \notin DOMAIN res
    THEN [resources |-> res, ret |-> FALSE, val |-> 0, notes |-> << >>]
    ELSE IF res[name].amount < amount
    THEN [resources |-> res, ret |-> FALSE, val |-> 0, notes |-> << >>]
    ELSE [resources |-> [res EXCEPT ![name].amount = @ - amount],
          ret |-> TRUE, val |-> 0,
          notes |-> << Note(name, 0 - amount, "spend") >>]

can_afford(res, costs) ==
    \A resource_name \in DOMAIN costs :
        ~(get_amount(res, resource_name) < costs[resource_name])

\* The "Spend all" loop of spend_multiple: spend() per item, results ignored.
RECURSIVE spend_each(_, _, _)
spend_each(res, costs, ks) ==
    IF ks = << >>
    THEN [resources |-> res, notes |-> << >>]
    ELSE LET one == spend(res, Head(ks), costs[Head(ks)])
             rest == spend_each(one.resources, costs, Tail(ks))
         IN [resources |-> rest.resources, notes |-> one.notes \o rest.notes]

\* spend_multiple without the affordability check.
spend_multipleNoCheck(res, costs) ==
    LET all == spend_each(res, costs, keys(costs))
    IN [resources |-> all.resources, ret |-> TRUE, val |-> 0, notes |-> all.notes]

spend_multiple(res, costs) ==
    IF ~can_afford(res, costs)
    THEN [resources |-> res, ret |-> FALSE, val |-> 0, notes |-> << >>]
    ELSE LET all == spend_each(res, costs, keys(costs))
         IN [resources |-> all.resources, ret |-> TRUE, val |-> 0,
             notes |-> all.notes]

\* The loop of generate over resources.values().
RECURSIVE generate_each(_, _, _)
generate_each(res, delta_time, ks) ==
    IF ks = << >>
    THEN [resources |-> res, notes |-> << >>]
    ELSE LET name == Head(ks)
             one == IF res[name].generation_rate > 0
                    THEN add(res, name, res[name].generation_rate * delta_time)
                    ELSE [resources |-> res, ret |-> TRUE, val |-> 0, notes |-> << >>]
             rest == generate_each(one.resources, delta_time, Tail(ks))
         IN [resources |-> rest.resources, notes |-> one.notes \o rest.notes]

\* generate that applies every rate, positive or not.
generateAnyRate(res, delta_time) ==
    [resources |->
        [n \in DOMAIN res |->
           add(res, n, res[n].generation_rate * delta_time).resources[n]],
     ret |-> TRUE, val |-> 0,
     notes |-> [i \in 1..Len(keys(res)) |->
                  add(res, keys(res)[i],
                      res[keys(res)[i]].generation_rate * delta_time).notes[1]]]

generate(res, delta_time) ==
    LET all == generate_each(res, delta_time, keys(res))
    IN [resources |-> all.resources, ret |-> TRUE, val |-> 0, notes |-> all.notes]

set_generation_rate(res, name, rate) ==
    IF name \in DOMAIN res
    THEN [res EXCEPT ![name].generation_rate = Max(0, rate)]
    ELSE res

modify_generation_rate(res, name, modifier) ==
    IF name \in DOMAIN res
    THEN set_generation_rate(res, name, res[name].generation_rate + modifier)
    ELSE res

\* Resource(name, amount=initial, max_storage, generation_rate, unlocked)
Resource(name, initial, max_storage, generation_rate) ==
    [name |-> name, amount |-> initial, max_storage |-> max_storage,
     generation_rate |-> generation_rate, unlocked |-> TRUE]

\* add_resource that stores the new entry without looking for an old one.
add_resourceOverwrite(res, name, initial, max_storage, generation_rate) ==
    [resources |-> Store(res, name,
                         Resource(name, initial, max_storage, generation_rate)),
     raised |-> FALSE]

\* add_resource(name, initial, max_storage, generation_rate); raised tells
\* that it raised ValueError.
add_resource(res, name, initial, max_storage, generation_rate) ==
    IF name \in DOMAIN res
    THEN [resources |-> res, raised |-> TRUE]
    ELSE [resources |-> Store(res, name,
                              Resource(name, initial, max_storage, generation_rate)),
          raised |-> FALSE]


(***************************** sums over dicts *****************************)
\* The keys of the merged totals: every key of field f of an owned entity.
RECURSIVE SumRates(_, _, _, _)
SumRates(entities, names, f, r) ==
    IF names = {} THEN 0
    ELSE LET n == CHOOSE x \in names : TRUE
             own == IF entities[n].count # 0 /\ r \in DOMAIN entities[n][f]
                    THEN entities[n][f][r] * entities[n].count
                    ELSE 0
         IN own + SumRates(entities, names \ {n}, f, r)

\* total[resource] = total.get(resource, 0) + rate, over entities with count # 0
Totals(entities, f) ==
    LET owned == {n \in DOMAIN entities : entities[n].count # 0}
        ks == UNION {DOMAIN entities[n][f] : n \in owned}
    IN [r \in ks |-> SumRates(entities, DOMAIN entities, f, r)]

\* for resource, rate in total.items(): resource_manager.add(resource,
\* rate * delta_time), over the keys ks of the totals.
RECURSIVE add_each(_, _, _, _)
add_each(res, total, delta_time, ks) ==
    IF ks = << >>
    THEN [resources |-> res, notes |-> << >>]
    ELSE LET one == add(res, Head(ks), total[Head(ks)] * delta_time)
             rest == add_each(one.resources, total, delta_time, Tail(ks))
         IN [resources |-> rest.resources, notes |-> one.notes \o rest.notes]

\* for resource, rate in total.items(): resource_manager.spend(resource,
\* owed), where owed is rate * delta_time, or, with clamp, the smaller of
\* that and the current amount.  paid records what each spend() returned.
RECURSIVE spend_owed(_, _, _, _, _)
spend_owed(res, total, delta_time, clamp, ks) ==
    IF ks = << >>
    THEN [resources |-> res, notes |-> << >>, paid |-> EmptyDict]
    ELSE LET resource == Head(ks)
             amount == total[resource] * delta_time
             current == get_amount(res, resource)
             one == spend(res, resource, IF clamp THEN Min(amount, current) ELSE amount)
             rest == spend_owed(one.resources, total, delta_time, clamp, Tail(ks))
         IN [resources |-> rest.resources, notes |-> one.notes \o rest.notes,
             paid |-> [r \in {resource} \cup DOMAIN rest.paid |->
                         IF r = resource THEN one.ret ELSE rest.paid[r]]]

(***************************** BuildingManager *****************************)
Building(name, cost, produces, consumes, unlocked, max_count) ==
    [name |-> name, cost |-> cost, count |-> 0, produces |-> produces,
     consumes |-> consumes, unlocked |-> unlocked, max_count |-> max_count]

register_building(blds, name, cost, produces, consumes, unlocked, max_count) ==
    IF name \in DOMAIN blds
    THEN [buildings |-> blds, raised |-> TRUE]
    ELSE [buildings |-> Store(blds, name,
                              Building(name, cost, produces, consumes, unlocked,
                                       max_count)),
          raised |-> FALSE]

Building_get_cost(building, count) ==
    [resource \in DOMAIN building.cost |-> building.cost[resource] * count]

Building_get_total_production(blds) == Totals(blds, "produces")

Building_get_total_consumption(blds) == Totals(blds, "consumes")

\* Each resource's rate is set once, so the order of the loop is immaterial.
RECURSIVE set_rates(_, _, _)
set_rates(res, net, names) ==
    IF names = {} THEN res
    ELSE LET n == CHOOSE x \in names : TRUE
         IN set_rates(set_generation_rate(res, n, net[n]), net, names \ {n})

Building_update_production_rates(blds, res) ==
    LET total_production == Building_get_total_production(blds)
        total_consumption == Building_get_total_consumption(blds)
        all_resources == DOMAIN total_production \cup DOMAIN total_consumption
        net == [r \in all_resources |->
                  (IF r \in DOMAIN total_production THEN total_production[r] ELSE 0)
                - (IF r \in DOMAIN total_consumption THEN total_consumption[r] ELSE 0)]
    IN set_rates(res, net, all_resources)

\* update_production spending consumption before it adds production.
Building_update_productionSpendFirst(blds, res, delta_time) ==
    LET total_production == Building_get_total_production(blds)
        total_consumption == Building_get_total_consumption(blds)
        consumed == spend_owed(res, total_consumption, delta_time, FALSE,
                               keys(total_consumption))
        produced == add_each(consumed.resources, total_production, delta_time,
                             keys(total_production))
    IN [resources |-> produced.resources, ret |-> TRUE, val |-> consumed.paid,
        notes |-> consumed.notes \o produced.notes]

Building_update_production(blds, res, delta_time) ==
    LET total_production == Building_get_total_production(blds)
        produced == add_each(res, total_production, delta_time,
                             keys(total_production))
        total_consumption == Building_get_total_consumption(blds)
        consumed == spend_owed(produced.resources, total_consumption, delta_time,
                               FALSE, keys(total_consumption))
    IN [resources |-> consumed.resources, ret |-> TRUE, val |-> consumed.paid,
        notes |-> produced.notes \o consumed.notes]

\* get_count(name) of either registry.
get_count(entities, name) ==
    IF name \in DOMAIN entities THEN entities[name].count ELSE 0

\* can_build with the max_count check testing only the current count.
can_buildIgnoreCount(blds, res, name, count) ==
    /\ name \in DOMAIN blds
    /\ blds[name].unlocked
    /\ (blds[name].max_count # None
           => ~(blds[name].count + 1 > blds[name].max_count[1]))
    /\ can_afford(res, Building_get_cost(blds[name], count))

can_build(blds, res, name, count) ==
    /\ name \in DOMAIN blds
    /\ blds[name].unlocked
    /\ (blds[name].max_count # None
           => ~(blds[name].count + count > blds[name].max_count[1]))
    /\ can_afford(res, Building_get_cost(blds[name], count))

\* build charging the per-unit cost whatever the count.
buildUnitCost(blds, res, name, count) ==
    IF ~can_build(blds, res, name, count)
    THEN [buildings |-> blds, resources |-> res, ret |-> FALSE, notes |-> << >>]
    ELSE LET paid == spend_multiple(res, Building_get_cost(blds[name], 1))
             built == [blds EXCEPT ![name].count = @ + count]
         IN [buildings |-> built,
             resources |-> Building_update_production_rates(built, paid.resources),
             ret |-> TRUE,
             notes |-> paid.notes \o << Note(name, count, "build") >>]

build(blds, res, name, count) ==
    IF ~can_build(blds, res, name, count)
    THEN [buildings |-> blds, resources |-> res, ret |-> FALSE, notes |-> << >>]
    ELSE LET paid == spend_multiple(res, Building_get_cost(blds[name], count))
             built == [blds EXCEPT ![name].count = @ + count]
         IN IF ~paid.ret
            THEN [buildings |-> blds, resources |-> paid.resources,
                  ret |-> FALSE, notes |-> paid.notes]
            ELSE [buildings |-> built,
                  resources |-> Building_update_production_rates(built, paid.resources),
                  ret |-> TRUE,
                  notes |-> paid.notes \o << Note(name, count, "build") >>]

\* demolish that gives the build cost back.
demolishRefund(blds, res, name, count) ==
    IF name \notin DOMAIN blds \/ blds[name].count < count
    THEN [buildings |-> blds, resources |-> res, ret |-> FALSE, notes |-> << >>]
    ELSE LET left == [blds EXCEPT ![name].count = @ - count]
             cost == Building_get_cost(blds[name], count)
             back == add_each(res, cost, 1, keys(cost))
         IN [buildings |-> left,
             resources |-> Building_update_production_rates(left, back.resources),
             ret |-> TRUE, notes |-> back.notes]

demolish(blds, res, name, count) ==
    IF name \notin DOMAIN blds \/ blds[name].count < count
    THEN [buildings |-> blds, resources |-> res, ret |-> FALSE, notes |-> << >>]
    ELSE LET left == [blds EXCEPT ![name].count = @ - count]
         IN [buildings |-> left,
             resources |-> Building_update_production_rates(left, res),
             ret |-> TRUE, notes |-> << >>]

(***************************** UnitManager *********************************)
Unit(name, cost, produces, upkeep, unlocked, max_count) ==
    [name |-> name, cost |-> cost, count |-> 0, upkeep |-> upkeep,
     produces |-> produces, unlocked |-> unlocked, max_count |-> max_count]

register_unit(uns, name, cost, produces, upkeep, unlocked, max_count) ==
    IF name \in DOMAIN uns
    THEN [units |-> uns, raised |-> TRUE]
    ELSE [units |-> Store(uns, name,
                          Unit(name, cost, produces, upkeep, unlocked, max_count)),
          raised |-> FALSE]

Unit_get_cost(unit, count) ==
    [resource \in DOMAIN unit.cost |-> unit.cost[resource] * count]

Unit_get_total_production(uns) == Totals(uns, "produces")

Unit_get_total_upkeep(uns) == Totals(uns, "upkeep")

\* Each resource's rate is modified once, so the order is immaterial.
RECURSIVE modify_rates(_, _, _)
modify_rates(res, total, names) ==
    IF names = {} THEN res
    ELSE LET n == CHOOSE x \in names : TRUE
         IN modify_rates(modify_generation_rate(res, n, total[n]), total, names \ {n})

Unit_update_production_rates(uns, res) ==
    LET total_production == Unit_get_total_production(uns)
    IN modify_rates(res, total_production, DOMAIN total_production)

\* update_production spending the upkeep owed without clamping it to the
\* amount available.
Unit_update_productionNoClamp(uns, res, delta_time) ==
    LET total_production == Unit_get_total_production(uns)
        produced == add_each(res, total_production, delta_time,
                             keys(total_production))
        total_upkeep == Unit_get_total_upkeep(uns)
        kept == spend_owed(produced.resources, total_upkeep, delta_time, FALSE,
                           keys(total_upkeep))
    IN [resources |-> kept.resources, ret |-> TRUE, val |-> kept.paid,
        notes |-> produced.notes \o kept.notes]

Unit_update_production(uns, res, delta_time) ==
    LET total_production == Unit_get_total_production(uns)
        produced == add_each(res, total_production, delta_time,
                             keys(total_production))
        total_upkeep == Unit_get_total_upkeep(uns)
        kept == spend_owed(produced.resources, total_upkeep, delta_time, TRUE,
                           keys(total_upkeep))
    IN [resources |-> kept.resources, ret |-> TRUE, val |-> kept.paid,
        notes |-> produced.notes \o kept.notes]

\* can_recruit without the unlocked check.
can_recruitIgnoreLock(uns, res, name, count) ==
    /\ name \in DOMAIN uns
    /\ (uns[name].max_count # None
           => ~(uns[name].count + count > uns[name].max_count[1]))
    /\ can_afford(res, Unit_get_cost(uns[name], count))

can_recruit(uns, res, name, count) ==
    /\ name \in DOMAIN uns
    /\ uns[name].unlocked
    /\ (uns[name].max_count # None
           => ~(uns[name].count + count > uns[name].max_count[1]))
    /\ can_afford(res, Unit_get_cost(uns[name], count))

recruit(uns, res, name, count) ==
    IF ~can_recruit(uns, res, name, count)
    THEN [units |-> uns, resources |-> res, ret |-> FALSE, notes |-> << >>]
    ELSE LET paid == spend_multiple(res, Unit_get_cost(uns[name], count))
             got == [uns EXCEPT ![name].count = @ + count]
         IN IF ~paid.ret
            THEN [units |-> uns, resources |-> paid.resources,
                  ret |-> FALSE, notes |-> paid.notes]
            ELSE [units |-> got,
                  resources |-> Unit_update_production_rates(got, paid.resources),
                  ret |-> TRUE,
                  notes |-> paid.notes \o << Note(name, count, "recruit") >>]

dismiss(uns, res, name, count) ==
    IF name \notin DOMAIN uns \/ uns[name].count < count
    THEN [units |-> uns, resources |-> res, ret |-> FALSE, notes |-> << >>]
    ELSE LET left == [uns EXCEPT ![name].count = @ - count]
         IN [units |-> left,
             resources |-> Unit_update_production_rates(left, res),
             ret |-> TRUE, notes |-> << >>]

(***************************** UpgradeManager ******************************)
Upgrade(name, cost, unlocked, prerequisites, unlocks, repeatable, max_purchases) ==
    [name |-> name, cost |-> cost, purchased |-> FALSE, effects |-> EmptyDict,
     unlocked |-> unlocked, prerequisites |-> prerequisites, unlocks |-> unlocks,
     repeatable |-> repeatable, times_purchased |-> 0,
     max_purchases |-> max_purchases]

\* register_upgrade(name, cost, effects=..., unlocked=..., prerequisites=...,
\* unlocks=..., repeatable=..., max_purchases=...)
register_upgrade(upgs, name, cost, effects, unlocked, prerequisites, unlocks, repeatable, max_purchases) ==
    IF name \in DOMAIN upgs
    THEN [upgrades |-> upgs, raised |-> TRUE]
    ELSE [upgrades |-> Store(upgs, name,
                             [Upgrade(name, cost, unlocked, prerequisites, unlocks,
                                      repeatable, max_purchases)
                                EXCEPT !.effects = effects]),
          raised |-> FALSE]

\* can_purchase_more that lets a purchased one-time upgrade be bought again.
can_purchase_moreIgnorePurchased(upgrade) ==
    IF ~upgrade.repeatable THEN TRUE
    ELSE IF upgrade.max_purchases = None THEN TRUE
    ELSE upgrade.times_purchased < upgrade.max_purchases[1]

\* can_purchase_more comparing with <= instead of <.
can_purchase_moreOffByOne(upgrade) ==
    IF ~upgrade.repeatable THEN ~upgrade.purchased
    ELSE IF upgrade.max_purchases = None THEN TRUE
    ELSE upgrade.times_purchased <= upgrade.max_purchases[1]

can_purchase_more(upgrade) ==
    IF ~upgrade.repeatable THEN ~upgrade.purchased
    ELSE IF upgrade.max_purchases = None THEN TRUE
    ELSE upgrade.times_purchased < upgrade.max_purchases[1]

\* get_cost scaling by 2 ** times_purchased.
Upgrade_get_costDoubling(upgrade) ==
    IF upgrade.repeatable /\ upgrade.times_purchased > 0
    THEN [resource \in DOMAIN upgrade.cost |->
            upgrade.cost[resource] * Pow(2, upgrade.times_purchased)]
    ELSE upgrade.cost

\* amount * 1.5 ** times_purchased = amount * 3^t / 2^t; the division is exact
\* on the fixed-point amounts while t <= MaxTimes (see CostsExact).
Upgrade_get_cost(upgrade) ==
    IF upgrade.repeatable /\ upgrade.times_purchased > 0
    THEN [resource \in DOMAIN upgrade.cost |->
            (upgrade.cost[resource] * Pow(3, upgrade.times_purchased))
                \div Pow(2, upgrade.times_purchased)]
    ELSE upgrade.cost

\* [u for u in self.upgrades.values() if u.purchased or u.times_purchased > 0]
get_purchased_upgrades(upgs) ==
    SelectSeq(keys(upgs),
              LAMBDA n : upgs[n].purchased \/ upgs[n].times_purchased > 0)

\* The loop of get_effect_value over the purchased upgrades ks.
RECURSIVE effect_total(_, _, _)
effect_total(upgs, effect_name, ks) ==
    IF ks = << >> THEN 0
    ELSE LET upgrade == upgs[Head(ks)]
             effect_value == IF effect_name \notin DOMAIN upgrade.effects THEN 0
                             ELSE IF upgrade.repeatable
                             THEN upgrade.effects[effect_name] * upgrade.times_purchased
                             ELSE upgrade.effects[effect_name]
         IN effect_value + effect_total(upgs, effect_name, Tail(ks))

\* get_effect_value summing over every registered upgrade, bought or not.
get_effect_valueAllUpgrades(upgs, effect_name) ==
    effect_total(upgs, effect_name, keys(upgs))

get_effect_value(upgs, effect_name) ==
    effect_total(upgs, effect_name, get_purchased_upgrades(upgs))

is_purchased(upgs, name) ==
    IF name \in DOMAIN upgs THEN upgs[name].purchased ELSE FALSE

\* can_purchase without the prerequisite loop.
can_purchaseNoPrereq(upgs, res, name) ==
    /\ name \in DOMAIN upgs
    /\ upgs[name].unlocked
    /\ can_purchase_more(upgs[name])
    /\ can_afford(res, Upgrade_get_cost(upgs[name]))

can_purchase(upgs, res, name) ==
    /\ name \in DOMAIN upgs
    /\ upgs[name].unlocked
    /\ can_purchase_more(upgs[name])
    /\ \A prereq \in upgs[name].prerequisites : is_purchased(upgs, prereq)
    /\ can_afford(res, Upgrade_get_cost(upgs[name]))

unlock_upgrade(upgs, name) ==
    IF name \in DOMAIN upgs THEN [upgs EXCEPT ![name].unlocked = TRUE] ELSE upgs

\* for unlock_name in upgrade.unlocks: unlock it if it is an upgrade.
RECURSIVE process_unlocks(_, _)
process_unlocks(upgs, unlocks) ==
    IF unlocks = << >> THEN upgs
    ELSE process_unlocks(unlock_upgrade(upgs, Head(unlocks)), Tail(unlocks))

\* purchase that marks the upgrade before the spend is known to succeed.
purchaseNoRecheck(upgs, res, name) ==
    IF name \notin DOMAIN upgs
    THEN [upgrades |-> upgs, resources |-> res, ret |-> FALSE, notes |-> << >>]
    ELSE LET upgrade == upgs[name]
             paid == spend_multiple(res, Upgrade_get_cost(upgrade))
             marked == IF upgrade.repeatable
                       THEN [upgs EXCEPT ![name].times_purchased = @ + 1]
                       ELSE [upgs EXCEPT ![name].purchased = TRUE]
         IN IF ~paid.ret
            THEN [upgrades |-> marked, resources |-> paid.resources,
                  ret |-> FALSE, notes |-> paid.notes]
            ELSE [upgrades |-> process_unlocks(marked, upgrade.unlocks),
                  resources |-> paid.resources, ret |-> TRUE,
                  notes |-> paid.notes \o << Note(name, 1, "purchase") >>]

purchase(upgs, res, name) ==
    IF ~can_purchase(upgs, res, name)
    THEN [upgrades |-> upgs, resources |-> res, ret |-> FALSE, notes |-> << >>]
    ELSE LET upgrade == upgs[name]
             paid == spend_multiple(res, Upgrade_get_cost(upgrade))
             marked == IF upgrade.repeatable
                       THEN [upgs EXCEPT ![name].times_purchased = @ + 1]
                       ELSE [upgs EXCEPT ![name].purchased = TRUE]
         IN IF ~paid.ret
            THEN [upgrades |-> upgs, resources |-> paid.resources,
                  ret |-> FALSE, notes |-> paid.notes]
            ELSE [upgrades |-> process_unlocks(marked, upgrade.unlocks),
                  resources |-> paid.resources, ret |-> TRUE,
                  notes |-> paid.notes \o << Note(name, 1, "purchase") >>]

(***************************** GameState: save and load *********************)
\* list(a_set), and set(a_list) on the way back.
SetToList(S) == SelectSeq(NameOrder, LAMBDA n : n \in S)
ListToSet(l) == {l[i] : i \in 1..Len(l)}

\* dataclass field default when the record lacks the key (cls(**data)).
Field(data, k, default) == IF k \in DOMAIN data THEN data[k] ELSE default

Resource_to_dict(r) ==
    [name |-> r.name, amount |-> r.amount, max_storage |-> r.max_storage,
     generation_rate |-> r.generation_rate, unlocked |-> r.unlocked]

Resource_from_dict(data) ==
    [name |-> data.name,
     amount |-> Field(data, "amount", 0),
     max_storage |-> Field(data, "max_storage", None),
     generation_rate |-> Field(data, "generation_rate", 0),
     unlocked |-> Field(data, "unlocked", TRUE)]

Building_to_dict(b) ==
    [name |-> b.name, cost |-> b.cost, count |-> b.count, produces |-> b.produces,
     consumes |-> b.consumes, unlocked |-> b.unlocked, max_count |-> b.max_count]

Building_from_dict(data) ==
    [name |-> data.name,
     cost |-> Field(data, "cost", EmptyDict),
     count |-> Field(data, "count", 0),
     produces |-> Field(data, "produces", EmptyDict),
     consumes |-> Field(data, "consumes", EmptyDict),
     unlocked |-> Field(data, "unlocked", FALSE),
     max_count |-> Field(data, "max_count", None)]

Unit_to_dict(u) ==
    [name |-> u.name, cost |-> u.cost, count |-> u.count, upkeep |-> u.upkeep,
     produces |-> u.produces, unlocked |-> u.unlocked, max_count |-> u.max_count]

Unit_from_dict(data) ==
    [name |-> data.name,
     cost |-> Field(data, "cost", EmptyDict),
     count |-> Field(data, "count", 0),
     upkeep |-> Field(data, "upkeep", EmptyDict),
     produces |-> Field(data, "produces", EmptyDict),
     unlocked |-> Field(data, "unlocked", FALSE),
     max_count |-> Field(data, "max_count", None)]

\* to_dict leaving times_purchased out of the record.
Upgrade_to_dictNoTimes(u) ==
    [name |-> u.name, cost |-> u.cost, purchased |-> u.purchased,
     effects |-> u.effects, unlocked |-> u.unlocked, prerequisites |-> SetToList(u.prerequisites),
     unlocks |-> u.unlocks, repeatable |-> u.repeatable,
     max_purchases |-> u.max_purchases]

Upgrade_to_dict(u) ==
    [name |-> u.name, cost |-> u.cost, purchased |-> u.purchased,
     effects |-> u.effects, unlocked |-> u.unlocked, prerequisites |-> SetToList(u.prerequisites),
     unlocks |-> u.unlocks, repeatable |-> u.repeatable,
     times_purchased |-> u.times_purchased, max_purchases |-> u.max_purchases]

Upgrade_from_dict(data) ==
    [name |-> data.name,
     cost |-> Field(data, "cost", EmptyDict),
     purchased |-> Field(data, "purchased", FALSE),
     effects |-> Field(data, "effects", EmptyDict),
     unlocked |-> Field(data, "unlocked", FALSE),
     prerequisites |-> IF "prerequisites" \in DOMAIN data
                       THEN ListToSet(data.prerequisites) ELSE {},
     unlocks |-> Field(data, "unlocks", << >>),
     repeatable |-> Field(data, "repeatable", FALSE),
     times_purchased |-> Field(data, "times_purchased", 0),
     max_purchases |-> Field(data, "max_purchases", None)]

\* The coordinator as one value: its four managers and its metadata.
Game(res, blds, uns, upgs, meta) ==
    [resources |-> res, buildings |-> blds, units |-> uns, upgrades |-> upgs,
     metadata |-> meta]

NewMetadata == [total_playtime |-> 0, tick_count |-> 0]

\* GameState(): empty managers, new metadata.
FreshGame == Game(EmptyDict, EmptyDict, EmptyDict, EmptyDict, NewMetadata)

required_keys == {"metadata", "resources", "buildings", "units", "upgrades"}

validate_save_data(data) == required_keys \subseteq DOMAIN data

\* save_data as save_game writes it (json.dump keeps numbers, None and names).
save_data(g) ==
    [metadata |-> g.metadata,
     resources |-> [n \in DOMAIN g.resources |-> Resource_to_dict(g.resources[n])],
     buildings |-> [n \in DOMAIN g.buildings |-> Building_to_dict(g.buildings[n])],
     units |-> [n \in DOMAIN g.units |-> Unit_to_dict(g.units[n])],
     upgrades |-> [n \in DOMAIN g.upgrades |-> Upgrade_to_dict(g.upgrades[n])]]

\* load_sections whose from_dict calls do not clear the registries first.
load_sectionsNoClear(g, data) ==
    LET meta == IF "metadata" \in DOMAIN data
                THEN [k \in DOMAIN g.metadata \cup DOMAIN data.metadata |->
                        IF k \in DOMAIN data.metadata
                        THEN data.metadata[k] ELSE g.metadata[k]]
                ELSE g.metadata
        res1 == IF "resources" \in DOMAIN data
                THEN [n \in DOMAIN g.resources \cup DOMAIN data.resources |->
                        IF n \in DOMAIN data.resources
                        THEN Resource_from_dict(data.resources[n]) ELSE g.resources[n]]
                ELSE g.resources
        blds == IF "buildings" \in DOMAIN data
                THEN [n \in DOMAIN g.buildings \cup DOMAIN data.buildings |->
                        IF n \in DOMAIN data.buildings
                        THEN Building_from_dict(data.buildings[n]) ELSE g.buildings[n]]
                ELSE g.buildings
        res2 == IF "buildings" \in DOMAIN data
                THEN Building_update_production_rates(blds, res1) ELSE res1
        uns == IF "units" \in DOMAIN data
               THEN [n \in DOMAIN g.units \cup DOMAIN data.units |->
                        IF n \in DOMAIN data.units
                        THEN Unit_from_dict(data.units[n]) ELSE g.units[n]]
               ELSE g.units
        res3 == IF "units" \in DOMAIN data
                THEN Unit_update_production_rates(uns, res2) ELSE res2
        upgs == IF "upgrades" \in DOMAIN data
                THEN [n \in DOMAIN g.upgrades \cup DOMAIN data.upgrades |->
                        IF n \in DOMAIN data.upgrades
                        THEN Upgrade_from_dict(data.upgrades[n]) ELSE g.upgrades[n]]
                ELSE g.upgrades
    IN Game(res3, blds, uns, upgs, meta)

\* The "Load metadata / Load state / Load subsystems" part of load_game:
\* each section that the record holds is loaded, in this order; the
\* registries' from_dict recompute the ledger's generation rates.
load_sections(g, data) ==
    LET meta == IF "metadata" \in DOMAIN data
                THEN [k \in DOMAIN g.metadata \cup DOMAIN data.metadata |->
                        IF k \in DOMAIN data.metadata
                        THEN data.metadata[k] ELSE g.metadata[k]]
                ELSE g.metadata
        res1 == IF "resources" \in DOMAIN data
                THEN [n \in DOMAIN data.resources |->
                        Resource_from_dict(data.resources[n])]
                ELSE g.resources
        blds == IF "buildings" \in DOMAIN data
                THEN [n \in DOMAIN data.buildings |->
                        Building_from_dict(data.buildings[n])]
                ELSE g.buildings
        res2 == IF "buildings" \in DOMAIN data
                THEN Building_update_production_rates(blds, res1) ELSE res1
        uns == IF "units" \in DOMAIN data
               THEN [n \in DOMAIN data.units |-> Unit_from_dict(data.units[n])]
               ELSE g.units
        res3 == IF "units" \in DOMAIN data
                THEN Unit_update_production_rates(uns, res2) ELSE res2
        upgs == IF "upgrades" \in DOMAIN data
                THEN [n \in DOMAIN data.upgrades |->
                        Upgrade_from_dict(data.upgrades[n])]
                ELSE g.upgrades
    IN Game(res3, blds, uns, upgs, meta)

\* load_game without the validation of the record.
load_gameNoValidation(g, file) ==
    IF file = None THEN [game |-> g, ret |-> FALSE]
    ELSE [game |-> load_sections(g, file[1]), ret |-> TRUE]

\* load_game into coordinator g from the file (None: no such file).
load_game(g, file) ==
    IF file = None THEN [game |-> g, ret |-> FALSE]
    ELSE IF ~validate_save_data(file[1]) THEN [game |-> g, ret |-> FALSE]
    ELSE [game |-> load_sections(g, file[1]), ret |-> TRUE]

\* update running the worker registry's tick before the structure registry's.
updateUnitsFirst(g, delta_time) ==
    LET meta == [g.metadata EXCEPT !.total_playtime = @ + delta_time,
                                   !.tick_count = @ + 1]
        generated == generate(g.resources, delta_time)
        worked == Unit_update_production(g.units, generated.resources, delta_time)
        built == Building_update_production(g.buildings, worked.resources,
                                            delta_time)
    IN [game |-> Game(built.resources, g.buildings, g.units, g.upgrades, meta),
        notes |-> generated.notes \o worked.notes \o built.notes]

\* GameState.update(delta_time)
update(g, delta_time) ==
    LET meta == [g.metadata EXCEPT !.total_playtime = @ + delta_time,
                                   !.tick_count = @ + 1]
        generated == generate(g.resources, delta_time)
        built == Building_update_production(g.buildings, generated.resources,
                                            delta_time)
        worked == Unit_update_production(g.units, built.resources, delta_time)
    IN [game |-> Game(worked.resources, g.buildings, g.units, g.upgrades, meta),
        notes |-> generated.notes \o built.notes \o worked.notes]

(***************************** TickSystem ***********************************)
\* Times are integers: time.time() and tick_rate in units of half a second.
TickSystem(tick_rate) ==
    [tick_rate |-> tick_rate, tick_count |-> 0, last_tick_time |-> 0,
     delta_time |-> 0, is_running |-> FALSE, tick_callbacks |-> << >>]

\* The callbacks a game registers; "faulty" raises whenever it is called.
Callbacks == {"update", "faulty"}
Raises(callback) == callback = "faulty"

\* start that leaves last_tick_time where it was.
startKeepsTime(ts, now) == [ts EXCEPT !.is_running = TRUE]

start(ts, now) == [ts EXCEPT !.is_running = TRUE, !.last_tick_time = now]

stop(ts) == [ts EXCEPT !.is_running = FALSE]

\* should_tick without the is_running check.
should_tickAnyState(ts, now) ==
    LET elapsed == now - ts.last_tick_time
    IN elapsed >= ts.tick_rate

should_tick(ts, now) ==
    IF ~ts.is_running THEN FALSE
    ELSE LET elapsed == now - ts.last_tick_time
         IN elapsed >= ts.tick_rate

\* The callback loop without the try/except: the first callback that raises
\* ends it.
RECURSIVE run_callbacksAbort(_, _)
run_callbacksAbort(callbacks, delta_time) ==
    IF callbacks = << >> THEN << >>
    ELSE << [callback |-> Head(callbacks), delta_time |-> delta_time,
             raised |-> Raises(Head(callbacks))] >>
         \o (IF Raises(Head(callbacks)) THEN << >>
             ELSE run_callbacksAbort(Tail(callbacks), delta_time))

\* for callback in self.tick_callbacks: try: callback(self.delta_time)
\* except Exception: log.  Each entry is one invocation.
RECURSIVE run_callbacks(_, _)
run_callbacks(callbacks, delta_time) ==
    IF callbacks = << >> THEN << >>
    ELSE << [callback |-> Head(callbacks), delta_time |-> delta_time,
             raised |-> Raises(Head(callbacks))] >>
         \o run_callbacks(Tail(callbacks), delta_time)

tick(ts, now) ==
    LET delta_time == now - ts.last_tick_time
    IN [tick_system |-> [ts EXCEPT !.delta_time = delta_time,
                                   !.last_tick_time = now,
                                   !.tick_count = @ + 1],
        calls |-> run_callbacks(ts.tick_callbacks, delta_time)]

register_callback(ts, callback) ==
    IF \E i \in 1..Len(ts.tick_callbacks) : ts.tick_callbacks[i] = callback
    THEN ts
    ELSE [ts EXCEPT !.tick_callbacks = Append(@, callback)]

unregister_callback(ts, callback) ==
    [ts EXCEPT !.tick_callbacks = SelectSeq(@, LAMBDA c : c # callback)]

\* History of the scheduler, kept beside it: whether start() was ever called
\* and whether the latest of start()/stop() was start(); the time that passed
\* while it was running; the time of the latest tick() or start(); the time
\* of the latest start(); the delta_times handed out so far, in all and since
\* the latest start(); the callbacks in the order they were registered; the
\* callback invocations of the latest tick() and the time from the tick
\* boundary before it to it; tick_count before the latest call.
NewTickLog ==
    [started |-> FALSE, running |-> FALSE, running_time |-> 0, boundary |-> 0,
     started_at |-> 0, delta_total |-> 0, run_deltas |-> 0,
     registered |-> << >>, calls |-> << >>, elapsed |-> 0,
     tick_count_before |-> 0]

(***************************** observers ************************************)
\* _notify_transaction / _notify_build / _notify_recruit / _notify_purchase
\* without the try/except: the first observer that raises ends the loop and
\* its exception leaves the call.
notifyNoCatch(callbacks, note) ==
    LET failing == {i \in 1..Len(callbacks) : Raises(callbacks[i])}
        reached == IF failing = {} THEN Len(callbacks)
                   ELSE CHOOSE i \in failing : \A j \in failing : i <= j
    IN [calls |-> [i \in 1..reached |->
                     [callback |-> callbacks[i], note |-> note,
                      raised |-> Raises(callbacks[i])]],
        escaped |-> failing # {}]

\* for callback in callbacks: try: callback(...) except Exception: log.
\* calls lists the invocations; escaped tells whether an exception left
\* the loop.
notify(callbacks, note) ==
    [calls |-> [i \in 1..Len(callbacks) |->
                  [callback |-> callbacks[i], note |-> note,
                   raised |-> Raises(callbacks[i])]],
     escaped |-> FALSE]

\* The callback list a notification goes to: ledger transactions ('add',
\* 'spend', 'set') to transaction_callbacks, the others to their manager's.
callbacks_of(obs, note) ==
    IF note.kind \in {"add", "spend", "set"} THEN obs.transaction
    ELSE obs[note.kind]

\* The notifications of one operation, in the order it makes them; an
\* exception that leaves a notification ends the operation.
RECURSIVE dispatch(_, _)
dispatch(obs, notes) ==
    IF notes = << >> THEN [calls |-> << >>, escaped |-> FALSE]
    ELSE LET one == notify(callbacks_of(obs, Head(notes)), Head(notes))
             rest == dispatch(obs, Tail(notes))
         IN IF one.escaped THEN one
            ELSE [calls |-> one.calls \o rest.calls, escaped |-> rest.escaped]

\* The callback lists of managers nobody registered an observer with.
NoObservers ==
    [transaction |-> << >>, build |-> << >>, recruit |-> << >>,
     purchase |-> << >>]

\* A game whose loop has not been created: the scheduler is idle throughout.
InitSched ==
    /\ tick_system = TickSystem(2)
    /\ clock = 0
    /\ tick_log = NewTickLog
    /\ sol_timer = 0

(***************************** calls ***************************************)
Current == Game(resources, buildings, units, upgrades, metadata)

\* The record of a call: what was called with what, what it returned, which
\* observers it notified, and the coordinator's state before it.
Call(op, name, n, costs, ret, val, notes) ==
    [op |-> op, name |-> name, n |-> n, costs |-> costs, ret |-> ret,
     val |-> val, notes |-> notes, pre |-> Current]

Amounts(res) == [n \in DOMAIN res |-> res[n].amount]
Counts(entities) == [n \in DOMAIN entities |-> entities[n].count]

(***************************** the ledger alone ****************************)
\* Names the ledger is called with; "stone" is never registered.
LedgerNames == {"gold", "wood", "stone"}

\* Cost mappings over the registered resources.
CostMaps == UNION {[S -> 0..MaxDelta] : S \in SUBSET {"gold", "wood"}}

\* add_resource('gold', initial, generation_rate=rate) and
\* add_resource('wood', initial, max_storage=4, generation_rate=1 - rate);
\* a registered rate may be negative (a net drain).
InitLedger ==
    /\ \E g \in {0, 2}, w \in {0, 4}, rate \in {0 - 1, 0, 1} :
          resources = [n \in {"gold", "wood"} |->
                         IF n = "gold" THEN Resource("gold", g, None, rate)
                         ELSE Resource("wood", w, Some(4), 1 - rate)]
    /\ buildings = EmptyDict
    /\ units = EmptyDict
    /\ upgrades = EmptyDict
    /\ metadata = NewMetadata
    /\ save_file = None
    /\ saved_from = None
    /\ game2 = None
    /\ purchase_log = [n \in DOMAIN upgrades |-> 0]
    /\ observers = NoObservers
    /\ InitSched
    /\ last = Call("init", "", 0, EmptyDict, TRUE, 0, << >>)

\* Amounts of uncapped resources stay within the explored range.
InRange(res) ==
    \A n \in DOMAIN res : res[n].max_storage = None => res[n].amount <= MaxAmount

LedgerCall(op, name, n, costs, r) ==
    /\ InRange(r.resources)
    /\ resources' = r.resources
    /\ last' = Call(op, name, n, costs, r.ret, r.val, r.notes)
    /\ UNCHANGED <<buildings, units, upgrades, metadata, save_file, saved_from,
                   game2, purchase_log, sched, observers>>

Add ==
    \E name \in LedgerNames, amount \in 0..MaxDelta :
        LedgerCall("add", name, amount, EmptyDict, add(resources, name, amount))

Spend ==
    \E name \in LedgerNames, amount \in 0..MaxDelta :
        LedgerCall("spend", name, amount, EmptyDict, spend(resources, name, amount))

SetAmount ==
    \E name \in LedgerNames, amount \in (0 - 1)..(MaxAmount + 1) :
        LedgerCall("set_amount", name, amount, EmptyDict,
                   set_amount(resources, name, amount, TRUE))

SpendMultiple ==
    \E costs \in CostMaps :
        LedgerCall("spend_multiple", "", 0, costs, spend_multiple(resources, costs))

Generate ==
    \E delta_time \in 0..MaxDt :
        LedgerCall("generate", "", delta_time, EmptyDict,
                   generate(resources, delta_time))

SetGenerationRate ==
    \E name \in LedgerNames, rate \in (0 - 1)..MaxRate :
        LedgerCall("set_generation_rate", name, rate, EmptyDict,
                   [resources |-> set_generation_rate(resources, name, rate),
                    ret |-> TRUE, val |-> 0, notes |-> << >>])

NextLedger ==
    \/ Add
    \/ Spend
    \/ SetAmount
    \/ SpendMultiple
    \/ Generate
    \/ SetGenerationRate

SpecLedger == InitLedger /\ [][NextLedger]_vars

(***************************** C1 ******************************************)
\* C1: spend_multiple is all-or-nothing.  For a cost mapping over registered
\* resources: when it returned False no amount differs from the amount before
\* the call, and when it returned True every resource of the mapping holds
\* exactly its amount before the call minus the requested amount (and every
\* other resource its amount before the call).
SpendMultipleAtomic ==
    (last.op = "spend_multiple" /\ DOMAIN last.costs \subseteq DOMAIN last.pre.resources)
    => /\ ~last.ret => Amounts(resources) = Amounts(last.pre.resources)
       /\ last.ret =>
            \A n \in DOMAIN resources :
                resources[n].amount =
                    last.pre.resources[n].amount
                    - (IF n \in DOMAIN last.costs THEN last.costs[n] ELSE 0)

\* A refused call where one entry was affordable and another was not, so a
\* partial deduction was possible.
SpendMultipleRefusedWitness ==
    /\ last.op = "spend_multiple"
    /\ ~last.ret
    /\ DOMAIN last.costs = {"gold", "wood"}
    /\ last.costs["gold"] > 0
    /\ last.costs["gold"] <= last.pre.resources["gold"].amount
    /\ last.costs["wood"] > last.pre.resources["wood"].amount

(***************************** C2 ******************************************)
\* C2: every registered resource keeps 0 <= amount, and amount <= max_storage
\* when max_storage is set, through add, spend, set_amount (clamp=True) and
\* generate with non-negative arguments.
AmountWithinStorage ==
    \A n \in DOMAIN resources :
        /\ resources[n].amount >= 0
        /\ resources[n].max_storage # None
              => resources[n].amount <= resources[n].max_storage[1]

\* generate ran into the cap: it was asked for more than fitted.
GenerateHitCapWitness ==
    /\ last.op = "generate"
    /\ resources["wood"].amount = resources["wood"].max_storage[1]
    /\ last.pre.resources["wood"].amount
         + last.pre.resources["wood"].generation_rate * last.n
         > resources["wood"].max_storage[1]

(***************************** C25 *****************************************)
\* C25: add(name, delta) with delta >= 0 on a resource with max_storage
\* raises the amount to min(amount + delta, max_storage) and returns the
\* amount it applied, new amount minus old amount, which is less than delta
\* exactly when amount + delta exceeded max_storage; transaction observers
\* are told that same amount.
AddReturnsApplied ==
    (/\ last.op = "add"
     /\ last.name \in DOMAIN last.pre.resources
     /\ last.pre.resources[last.name].max_storage # None
     /\ last.n >= 0)
    => LET old == last.pre.resources[last.name].amount
           cap == last.pre.resources[last.name].max_storage[1]
       IN /\ resources[last.name].amount = Min(old + last.n, cap)
          /\ last.val = resources[last.name].amount - old
          /\ (last.val < last.n) <=> (old + last.n > cap)
          /\ last.notes = << Note(last.name, last.val, "add") >>

\* An add that was applied in part: some of it fitted under the cap.
AddAppliedInPartWitness ==
    /\ last.op = "add"
    /\ last.name = "wood"
    /\ last.val > 0
    /\ last.val < last.n
    /\ resources["wood"].amount = resources["wood"].max_storage[1]

(***************************** C26 *****************************************)
\* C26: spend(name, delta) on a registered resource that holds less than
\* delta returns False, leaves every amount as it was and notifies no
\* observer; otherwise it returns True and the resource holds exactly delta
\* less than before, every other resource what it held.
SpendAllOrNothing ==
    (last.op = "spend" /\ last.name \in DOMAIN last.pre.resources)
    => IF last.pre.resources[last.name].amount < last.n
       THEN /\ ~last.ret
            /\ resources = last.pre.resources
            /\ last.notes = << >>
       ELSE /\ last.ret
            /\ resources =
                 [last.pre.resources EXCEPT ![last.name].amount = @ - last.n]

\* A spend refused although the resource held part of the amount.
SpendRefusedWitness ==
    /\ last.op = "spend"
    /\ last.name \in DOMAIN resources
    /\ ~last.ret
    /\ resources[last.name].amount > 0
    /\ resources[last.name].amount < last.n

(***************************** C27 *****************************************)
\* The ledger of the example: one resource at 20 with max_storage 100.
ExampleLedger(rate) == [n \in {"gold"} |-> Resource(n, 20, Some(100), rate)]

\* C27: generate(delta_time) adds generation_rate * delta_time, capped at
\* max_storage, to every resource whose generation_rate is positive, and
\* leaves the amount of every resource whose rate is zero or negative as it
\* was.  In the example (amount 20, max_storage 100) generate(5) leaves 20 at
\* rate 0 and gives 35 after set_generation_rate(3).
GenerateOnlyPositiveRates ==
    /\ last.op = "generate"
       => \A n \in DOMAIN resources :
             LET old == last.pre.resources[n]
                 due == old.amount + old.generation_rate * last.n
             IN resources[n].amount =
                  IF old.generation_rate > 0
                  THEN IF old.max_storage # None
                       THEN Min(due, old.max_storage[1]) ELSE due
                  ELSE old.amount
    /\ generate(ExampleLedger(0), 5).resources["gold"].amount = 20
    /\ generate(set_generation_rate(ExampleLedger(0), "gold", 3), 5)
           .resources["gold"].amount = 35

\* generate passed over a resource with a negative rate, which kept its
\* amount, and raised one with a positive rate.
GenerateSkipsDrainWitness ==
    /\ last.op = "generate"
    /\ last.n > 0
    /\ last.pre.resources["gold"].generation_rate < 0
    /\ resources["gold"].amount > 0
    /\ resources["gold"].amount = last.pre.resources["gold"].amount
    /\ resources["wood"].amount > last.pre.resources["wood"].amount

(***************************** the upgrade graph ***************************)
\* Whole units as fixed-point amounts.
Whole(n) == n * Den

UpgradeCatalog ==
    [n \in {"basic", "advanced", "training", "drill", "elite", "ghost_dep"} |->
       CASE n = "basic" ->
              Upgrade(n, [r \in {"research"} |-> Whole(1)], TRUE, {},
                      <<"advanced">>, FALSE, None)
         [] n = "advanced" ->
              Upgrade(n, [r \in {"research", "gold"} |->
                            IF r = "research" THEN Whole(2) ELSE Whole(1)],
                      FALSE, {"basic"}, << >>, FALSE, None)
         [] n = "training" ->
              Upgrade(n, [r \in {"gold"} |-> Whole(1)], TRUE, {}, << >>, TRUE, Some(2))
         [] n = "drill" ->
              Upgrade(n, [r \in {"research"} |-> Whole(1)], TRUE, {}, << >>, TRUE, None)
         [] n = "elite" ->
              Upgrade(n, [r \in {"gold"} |-> Whole(1)], TRUE, {"training"},
                      << >>, FALSE, None)
         [] OTHER ->
              Upgrade(n, EmptyDict, TRUE, {"nonexistent"}, << >>, FALSE, None)]

\* effects={...} of each upgrade of the catalog; "luck" is declared by none.
UpgradeEffects ==
    [n \in DOMAIN UpgradeCatalog |->
       CASE n = "basic" -> [e \in {"speed"} |-> 2]
         [] n = "advanced" -> [e \in {"speed", "yield"} |->
                                 IF e = "speed" THEN 1 ELSE 3]
         [] n = "training" -> [e \in {"speed"} |-> 1]
         [] n = "drill" -> [e \in {"yield"} |-> 2]
         [] n = "elite" -> [e \in {"yield"} |-> 1]
         [] OTHER -> EmptyDict]

EffectNames == {"speed", "yield", "luck"}

\* Names purchase / unlock_upgrade are called with; "nonexistent" is unregistered.
UpgradeNames == DOMAIN UpgradeCatalog \cup {"nonexistent"}

InitUpgrades ==
    /\ resources = [n \in {"gold", "research"} |->
                      Resource(n, Whole(1), Some(Whole(3)), 0)]
    /\ buildings = EmptyDict
    /\ units = EmptyDict
    /\ upgrades = [n \in DOMAIN UpgradeCatalog |->
                     [UpgradeCatalog[n] EXCEPT !.effects = UpgradeEffects[n]]]
    /\ metadata = NewMetadata
    /\ save_file = None
    /\ saved_from = None
    /\ game2 = None
    /\ purchase_log = [n \in DOMAIN upgrades |-> 0]
    /\ observers = NoObservers
    /\ InitSched
    /\ last = Call("init", "", 0, EmptyDict, TRUE, 0, << >>)

\* resources.add(name, 1.0): income between purchases.
AddWhole ==
    \E name \in DOMAIN resources :
        LET r == add(resources, name, Whole(1))
        IN /\ InRange(r.resources)
           /\ resources' = r.resources
           /\ last' = Call("add", name, Whole(1), EmptyDict, r.ret, r.val, r.notes)
           /\ UNCHANGED <<buildings, units, upgrades, metadata, save_file,
                          saved_from, game2, purchase_log, sched, observers>>

UnlockUpgrade ==
    \E name \in UpgradeNames :
        /\ upgrades' = unlock_upgrade(upgrades, name)
        /\ last' = Call("unlock_upgrade", name, 0, EmptyDict, TRUE, 0, << >>)
        /\ UNCHANGED <<resources, buildings, units, metadata, save_file,
                       saved_from, game2, purchase_log, sched, observers>>

\* Purchases of a repeatable upgrade without max_purchases are explored up to
\* MaxTimes.
WithinTimes(upgs) ==
    \A n \in DOMAIN upgs :
        upgs[n].max_purchases = None => upgs[n].times_purchased <= MaxTimes

Purchase ==
    \E name \in UpgradeNames :
        LET r == purchase(upgrades, resources, name)
        IN /\ WithinTimes(r.upgrades)
           /\ upgrades' = r.upgrades
           /\ resources' = r.resources
           /\ purchase_log' = IF r.ret THEN [purchase_log EXCEPT ![name] = @ + 1]
                              ELSE purchase_log
           /\ last' = Call("purchase", name, 0, EmptyDict, r.ret, 0, r.notes)
           /\ UNCHANGED <<buildings, units, metadata, save_file, saved_from, game2,
                          sched, observers>>

\* upgrades.get_effect_value(effect_name)
GetEffectValue ==
    \E effect_name \in EffectNames :
        /\ last' = Call("get_effect_value", effect_name, 0, EmptyDict, TRUE,
                        get_effect_value(upgrades, effect_name), << >>)
        /\ UNCHANGED <<resources, buildings, units, upgrades, metadata, save_file,
                       saved_from, game2, purchase_log, sched, observers>>

NextUpgrades ==
    \/ AddWhole
    \/ UnlockUpgrade
    \/ Purchase
    \/ GetEffectValue

SpecUpgrades == InitUpgrades /\ [][NextUpgrades]_vars

\* Every cost the model computes is an exact fixed-point amount.
CostsExact ==
    \A n \in DOMAIN upgrades : \A r \in DOMAIN upgrades[n].cost :
        (upgrades[n].cost[r] * Pow(3, upgrades[n].times_purchased))
            % Pow(2, upgrades[n].times_purchased) = 0

\* An upgrade that was bought: purchased, or bought at least once if repeatable.
Bought(upgs, name) ==
    /\ name \in DOMAIN upgs
    /\ (upgs[name].purchased \/ upgs[name].times_purchased > 0)

(***************************** C4 ******************************************)
\* C4: an upgrade with a prerequisite that has not been purchased, or that
\* names an unregistered upgrade, is not purchasable: can_purchase is False
\* in that state and a purchase call made in that state returned False,
\* whatever the ledger holds.
PrerequisiteEnforced ==
    /\ \A n \in DOMAIN upgrades :
          (\E p \in upgrades[n].prerequisites : ~Bought(upgrades, p))
              => ~can_purchase(upgrades, resources, n)
    /\ (/\ last.op = "purchase"
        /\ last.name \in DOMAIN last.pre.upgrades
        /\ \E p \in last.pre.upgrades[last.name].prerequisites :
              ~Bought(last.pre.upgrades, p))
       => ~last.ret

\* purchase('advanced') refused for its prerequisite alone: unlocked,
\* affordable, not yet purchased.
PrerequisiteRefusedWitness ==
    /\ last.op = "purchase"
    /\ last.name = "advanced"
    /\ ~last.ret
    /\ last.pre.upgrades["advanced"].unlocked
    /\ ~last.pre.upgrades["basic"].purchased
    /\ can_afford(last.pre.resources, last.pre.upgrades["advanced"].cost)

(***************************** C5 ******************************************)
\* C5: an unlocked upgrade whose prerequisites have all been purchased (a
\* repeatable prerequisite: at least once), that is not at its purchase
\* limit and whose current cost the ledger affords, is purchasable:
\* can_purchase returns True.
PurchasableOncePrerequisitesBought ==
    \A n \in DOMAIN upgrades :
        (/\ upgrades[n].unlocked
         /\ \A p \in upgrades[n].prerequisites : Bought(upgrades, p)
         /\ can_purchase_more(upgrades[n])
         /\ can_afford(resources, Upgrade_get_cost(upgrades[n])))
        => can_purchase(upgrades, resources, n)

(***************************** C6 ******************************************)
\* C6: a purchase call made while can_purchase was False returned False,
\* left purchased, times_purchased and unlocked of every upgrade and every
\* resource amount as they were, and notified no observer; the state being
\* the same, so does every repetition of the call.
FailedPurchaseChangesNothing ==
    (last.op = "purchase"
     /\ ~can_purchase(last.pre.upgrades, last.pre.resources, last.name))
    => /\ ~last.ret
       /\ upgrades = last.pre.upgrades
       /\ Amounts(resources) = Amounts(last.pre.resources)
       /\ last.notes = << >>
       /\ ~can_purchase(upgrades, resources, last.name)

\* A refused purchase of an upgrade the ledger could pay for: 'training' at
\* its purchase limit.
FailedPurchaseWitness ==
    /\ last.op = "purchase"
    /\ last.name = "training"
    /\ ~last.ret
    /\ last.pre.upgrades["training"].times_purchased = 2
    /\ can_afford(last.pre.resources, Upgrade_get_cost(last.pre.upgrades["training"]))

(***************************** C9 ******************************************)
\* C9: a repeatable upgrade with max_purchases = N has times_purchased <= N
\* in every state; at times_purchased = N can_purchase is False and a
\* purchase call returned False, however much the ledger holds.
PurchaseLimitRespected ==
    /\ \A n \in DOMAIN upgrades :
          (upgrades[n].repeatable /\ upgrades[n].max_purchases # None)
          => /\ upgrades[n].times_purchased <= upgrades[n].max_purchases[1]
             /\ upgrades[n].times_purchased = upgrades[n].max_purchases[1]
                   => ~can_purchase(upgrades, resources, n)
    /\ (/\ last.op = "purchase"
        /\ last.name \in DOMAIN last.pre.upgrades
        /\ last.pre.upgrades[last.name].repeatable
        /\ last.pre.upgrades[last.name].max_purchases # None
        /\ last.pre.upgrades[last.name].times_purchased
             = last.pre.upgrades[last.name].max_purchases[1])
       => ~last.ret

\* 'training' bought twice, a third purchase refused with the ledger full.
PurchaseLimitWitness ==
    /\ last.op = "purchase"
    /\ last.name = "training"
    /\ ~last.ret
    /\ upgrades["training"].times_purchased = upgrades["training"].max_purchases[1]
    /\ resources["gold"].amount = resources["gold"].max_storage[1]

(***************************** C10 *****************************************)
\* C10: the k-th successful purchase of a repeatable upgrade deducted
\* base_cost * 1.5^(k-1) of each cost resource (as fractions:
\* deducted * 2^(k-1) = base_cost * 3^(k-1)) and a non-repeatable one its base
\* cost; and an upgrade that is unlocked, below its limit and has its
\* prerequisites is purchasable exactly when the ledger holds that current
\* cost of every cost resource.
Deducted(n) == last.pre.resources[n].amount - resources[n].amount

PurchaseChargesScaledCost ==
    /\ (last.op = "purchase" /\ last.ret)
       => LET before == last.pre.upgrades[last.name]
              k == IF before.repeatable THEN before.times_purchased + 1 ELSE 1
          IN \A n \in DOMAIN resources :
                Deducted(n) * Pow(2, k - 1) =
                    IF n \in DOMAIN before.cost
                    THEN before.cost[n] * Pow(3, k - 1) ELSE 0
    /\ \A n \in DOMAIN upgrades :
          LET t == IF upgrades[n].repeatable THEN upgrades[n].times_purchased ELSE 0
          IN (/\ upgrades[n].unlocked
              /\ can_purchase_more(upgrades[n])
              /\ \A p \in upgrades[n].prerequisites : is_purchased(upgrades, p))
             => (can_purchase(upgrades, resources, n)
                   <=> \A r \in DOMAIN upgrades[n].cost :
                          get_amount(resources, r) * Pow(2, t)
                              >= upgrades[n].cost[r] * Pow(3, t))

\* The second purchase of 'drill' succeeded: 1.5 times the base cost.
SecondPurchaseWitness ==
    /\ last.op = "purchase"
    /\ last.name = "drill"
    /\ last.ret
    /\ last.pre.upgrades["drill"].times_purchased = 1

(***************************** C11 *****************************************)
\* What every call leaves of an upgrade's flags: unlocked and purchased stay
\* True once True, and times_purchased does not decrease.
FlagsMoveForward(n) ==
    /\ last.pre.upgrades[n].unlocked => upgrades[n].unlocked
    /\ last.pre.upgrades[n].purchased => upgrades[n].purchased
    /\ upgrades[n].times_purchased >= last.pre.upgrades[n].times_purchased

\* By how much the last call raised times_purchased of upgrade n.
TimesGrowth(n) ==
    upgrades[n].times_purchased - last.pre.upgrades[n].times_purchased

\* C11 as stated: under unlock and purchase calls unlocked and purchased never
\* go from True to False, times_purchased never decreases and grows by exactly
\* 1 per successful purchase (of any upgrade), and at most one purchase call
\* of a non-repeatable upgrade ever returns True and spends resources.
UpgradeOnlyMovesForward ==
    /\ \A n \in DOMAIN upgrades :
          /\ FlagsMoveForward(n)
          /\ TimesGrowth(n) =
                IF last.op = "purchase" /\ last.ret /\ last.name = n THEN 1 ELSE 0
          /\ ~upgrades[n].repeatable => purchase_log[n] <= 1
    /\ (last.op = "purchase" /\ ~last.ret)
          => Amounts(resources) = Amounts(last.pre.resources)

\* C11 (amended): as above, with times_purchased growing by exactly 1 per
\* successful purchase of a repeatable upgrade; the successful purchase of a
\* non-repeatable upgrade sets purchased and leaves times_purchased at 0.
UpgradeOnlyMovesForwardCounted ==
    /\ \A n \in DOMAIN upgrades :
          /\ FlagsMoveForward(n)
          /\ TimesGrowth(n) =
                IF /\ last.op = "purchase" /\ last.ret /\ last.name = n
                   /\ upgrades[n].repeatable
                THEN 1 ELSE 0
          /\ (last.op = "purchase" /\ last.ret /\ last.name = n
                /\ ~upgrades[n].repeatable)
             => (~last.pre.upgrades[n].purchased /\ upgrades[n].purchased)
          /\ ~upgrades[n].repeatable => purchase_log[n] <= 1
    /\ (last.op = "purchase" /\ ~last.ret)
          => Amounts(resources) = Amounts(last.pre.resources)

\* A second purchase('basic') refused although the ledger pays its cost,
\* after 'drill' was bought twice.
SecondPurchaseRefusedWitness ==
    /\ last.op = "purchase"
    /\ last.name = "basic"
    /\ ~last.ret
    /\ purchase_log["basic"] = 1
    /\ can_afford(resources, upgrades["basic"].cost)
    /\ upgrades["drill"].times_purchased = 2

(***************************** C22 *****************************************)
\* The sum of the values of a function with a finite domain.
RECURSIVE SumOf(_)
SumOf(f) ==
    IF DOMAIN f = {} THEN 0
    ELSE LET n == CHOOSE x \in DOMAIN f : TRUE
         IN f[n] + SumOf([x \in DOMAIN f \ {n} |-> f[x]])

\* The upgrades that declare the effect the last call asked for.
Declaring == {n \in DOMAIN upgrades : last.name \in DOMAIN upgrades[n].effects}

\* C22: get_effect_value(effect) is the sum, over the upgrades with purchased
\* = True or times_purchased > 0 that declare the effect, of its magnitude
\* times times_purchased (repeatable) or times 1 (non-repeatable); which is
\* the magnitude times the number of successful purchases of each declaring
\* upgrade, so upgrades never purchased contribute 0.
EffectValueFromPurchases ==
    last.op = "get_effect_value"
    => /\ last.val =
            SumOf([n \in {d \in Declaring : upgrades[d].purchased
                                            \/ upgrades[d].times_purchased > 0} |->
                     upgrades[n].effects[last.name]
                       * (IF upgrades[n].repeatable
                          THEN upgrades[n].times_purchased ELSE 1)])
       /\ last.val =
            SumOf([n \in Declaring |->
                     upgrades[n].effects[last.name] * purchase_log[n]])

\* The effect was asked for after a repeatable upgrade declaring it was
\* bought twice and a one-time upgrade once, a third one never.
EffectAfterRepeatsWitness ==
    /\ last.op = "get_effect_value"
    /\ last.name = "speed"
    /\ upgrades["training"].times_purchased = 2
    /\ upgrades["basic"].purchased
    /\ ~upgrades["advanced"].purchased
    /\ last.val = 4

(***************************** the entity registries ***********************)
Cost1(r, a) == [k \in {r} |-> a]
Cost2(r1, a1, r2, a2) == [k \in {r1, r2} |-> IF k = r1 THEN a1 ELSE a2]

BuildingCatalog ==
    [n \in {"farm", "mine", "tower"} |->
       CASE n = "farm" ->
              Building(n, Cost1("wood", Whole(1)), Cost1("gold", 1), EmptyDict,
                       TRUE, None)
         [] n = "mine" ->
              Building(n, Cost2("gold", Whole(2), "wood", Whole(1)),
                       Cost1("wood", 1), Cost1("gold", 1), TRUE, Some(2))
         [] OTHER ->
              Building(n, Cost1("gold", Whole(1)), EmptyDict, EmptyDict,
                       FALSE, Some(1))]

UnitCatalog ==
    [n \in {"peasant", "knight"} |->
       CASE n = "peasant" ->
              Unit(n, Cost1("gold", Whole(1)), EmptyDict, Cost1("gold", 1),
                   TRUE, Some(2))
         [] OTHER ->
              Unit(n, Cost2("gold", Whole(2), "wood", Whole(1)), EmptyDict,
                   EmptyDict, FALSE, None)]

\* Names the registries are called with; "castle" and "miner" are unregistered.
BuildingNames == DOMAIN BuildingCatalog \cup {"castle"}
UnitNames == DOMAIN UnitCatalog \cup {"miner"}

InitEntities ==
    /\ resources = [n \in {"gold", "wood"} |->
                      IF n = "gold" THEN Resource(n, Whole(2), Some(Whole(4)), 0)
                      ELSE Resource(n, Whole(1), Some(Whole(2)), 0)]
    /\ buildings = BuildingCatalog
    /\ units = UnitCatalog
    /\ upgrades = EmptyDict
    /\ metadata = NewMetadata
    /\ save_file = None
    /\ saved_from = None
    /\ game2 = None
    /\ purchase_log = [n \in DOMAIN upgrades |-> 0]
    /\ observers = NoObservers
    /\ InitSched
    /\ last = Call("init", "", 0, EmptyDict, TRUE, 0, << >>)

\* Counts of entity types without max_count are explored up to MaxN.
CountsInRange(entities) ==
    \A n \in DOMAIN entities :
        entities[n].max_count = None => entities[n].count <= MaxN

BuildingCall(op, name, count, r) ==
    /\ CountsInRange(r.buildings)
    /\ buildings' = r.buildings
    /\ resources' = r.resources
    /\ last' = Call(op, name, count, EmptyDict, r.ret, 0, r.notes)
    /\ UNCHANGED <<units, upgrades, metadata, save_file, saved_from, game2,
                   purchase_log, sched, observers>>

UnitCall(op, name, count, r) ==
    /\ CountsInRange(r.units)
    /\ units' = r.units
    /\ resources' = r.resources
    /\ last' = Call(op, name, count, EmptyDict, r.ret, 0, r.notes)
    /\ UNCHANGED <<buildings, upgrades, metadata, save_file, saved_from, game2,
                   purchase_log, sched, observers>>

Build ==
    \E name \in BuildingNames, count \in 1..MaxN :
        BuildingCall("build", name, count, build(buildings, resources, name, count))

Demolish ==
    \E name \in BuildingNames, count \in 1..MaxN :
        BuildingCall("demolish", name, count,
                     demolish(buildings, resources, name, count))

Recruit ==
    \E name \in UnitNames, count \in 1..MaxN :
        UnitCall("recruit", name, count, recruit(units, resources, name, count))

Dismiss ==
    \E name \in UnitNames, count \in 1..MaxN :
        UnitCall("dismiss", name, count, dismiss(units, resources, name, count))

\* A query: it returns a value and assigns nothing.
Query(op, name, count, ret) ==
    /\ last' = Call(op, name, count, EmptyDict, ret, 0, << >>)
    /\ UNCHANGED <<resources, buildings, units, upgrades, metadata, save_file,
                   saved_from, game2, purchase_log, sched, observers>>

CanBuild ==
    \E name \in BuildingNames, count \in 1..MaxN :
        Query("can_build", name, count, can_build(buildings, resources, name, count))

CanRecruit ==
    \E name \in UnitNames, count \in 1..MaxN :
        Query("can_recruit", name, count, can_recruit(units, resources, name, count))

NextEntities ==
    \/ AddWhole
    \/ Build
    \/ Demolish
    \/ Recruit
    \/ Dismiss
    \/ CanBuild
    \/ CanRecruit

SpecEntities == InitEntities /\ [][NextEntities]_vars

(***************************** C7 ******************************************)
\* The registry a build / recruit call went to, before and after the call.
Before == IF last.op = "build" THEN last.pre.buildings ELSE last.pre.units
After == IF last.op = "build" THEN buildings ELSE units

\* C7: build / recruit of count >= 1 units.  A call that returned True took
\* exactly per-unit cost * count of every cost resource (and nothing of any
\* other) and raised the owned count by exactly count; a call on an unknown
\* or locked entity, over max_count, or that the ledger could not pay in
\* full, returned False; a call that returned False changed no resource
\* amount and no count.
AcquireChargesCostTimesCount ==
    (last.op \in {"build", "recruit"})
    => /\ last.ret
          => /\ \A r \in DOMAIN resources :
                   Deducted(r) = IF r \in DOMAIN Before[last.name].cost
                                 THEN Before[last.name].cost[r] * last.n ELSE 0
             /\ After[last.name].count = Before[last.name].count + last.n
             /\ \A n \in DOMAIN After \ {last.name} :
                   After[n].count = Before[n].count
       /\ (\/ last.name \notin DOMAIN Before
           \/ ~Before[last.name].unlocked
           \/ /\ Before[last.name].max_count # None
              /\ Before[last.name].count + last.n > Before[last.name].max_count[1]
           \/ \E r \in DOMAIN Before[last.name].cost :
                 get_amount(last.pre.resources, r) < Before[last.name].cost[r] * last.n)
          => ~last.ret
       /\ ~last.ret
          => /\ Amounts(resources) = Amounts(last.pre.resources)
             /\ Counts(buildings) = Counts(last.pre.buildings)
             /\ Counts(units) = Counts(last.pre.units)

\* build('mine', 2) succeeded: two resources, twice the per-unit cost.
BuildTwoWitness ==
    /\ last.op = "build"
    /\ last.name = "mine"
    /\ last.n = 2
    /\ last.ret

(***************************** C8 ******************************************)
\* C8: every structure and worker type keeps 0 <= count, and count <=
\* max_count when max_count is set, through build, recruit, demolish and
\* dismiss with count arguments >= 1.
CountWithinMax ==
    /\ \A n \in DOMAIN buildings :
          /\ buildings[n].count >= 0
          /\ buildings[n].max_count # None
                => buildings[n].count <= buildings[n].max_count[1]
    /\ \A n \in DOMAIN units :
          /\ units[n].count >= 0
          /\ units[n].max_count # None => units[n].count <= units[n].max_count[1]

\* build('mine', 2) refused with one mine owned and the cost in the ledger:
\* only max_count stood in the way.
BuildOverMaxWitness ==
    /\ last.op = "build"
    /\ last.name = "mine"
    /\ last.n = 2
    /\ ~last.ret
    /\ last.pre.buildings["mine"].count = 1
    /\ can_afford(last.pre.resources, Building_get_cost(last.pre.buildings["mine"], 2))

(***************************** C12 *****************************************)
\* The registry a can_build / can_recruit query went to.
Asked == IF last.op = "can_build" THEN last.pre.buildings ELSE last.pre.units

\* C12: can_build(name, count) / can_recruit(name, count) returned True
\* exactly when the entity is registered and unlocked, count + owned count
\* <= max_count (when max_count is set) and the ledger holds at least
\* cost * count of every cost resource (an unregistered resource holds 0);
\* the query changed no state.
CanAcquireExact ==
    (last.op \in {"can_build", "can_recruit"})
    => /\ last.ret <=>
            /\ last.name \in DOMAIN Asked
            /\ Asked[last.name].unlocked
            /\ Asked[last.name].max_count # None
                  => Asked[last.name].count + last.n <= Asked[last.name].max_count[1]
            /\ \A r \in DOMAIN Asked[last.name].cost :
                  (IF r \in DOMAIN last.pre.resources
                   THEN last.pre.resources[r].amount ELSE 0)
                      >= Asked[last.name].cost[r] * last.n
       /\ Current = last.pre

\* can_recruit('knight', 1) answered False with the cost in the ledger and no
\* max_count: only the lock stood in the way; and can_build('mine', 2)
\* answered True in the same session.
CanRecruitLockedWitness ==
    /\ last.op = "can_recruit"
    /\ last.name = "knight"
    /\ last.n = 1
    /\ ~last.ret
    /\ can_afford(resources, Unit_get_cost(units["knight"], 1))
    /\ buildings["farm"].count > 0

\* Generation rates stay within the explored range (a worker that produces
\* raises the rate again at every recruit and dismiss).
RatesInRange(res) ==
    \A n \in DOMAIN res : res[n].generation_rate <= MaxGenRate

(***************************** C29 *****************************************)
\* The registry the last demolish / dismiss call worked on, before and after.
ReleasedFrom == IF last.op = "demolish" THEN last.pre.buildings ELSE last.pre.units
ReleasedTo == IF last.op = "demolish" THEN buildings ELSE units

\* C29: demolish(name, count) and dismiss(name, count) with count >= 1 take
\* exactly count off the owned count and return True when count are owned,
\* and otherwise return False with every count as it was; either way no
\* resource amount changes and no observer is told of a transaction.
ReleaseWithoutRefund ==
    (last.op \in {"demolish", "dismiss"} /\ last.n >= 1)
    => /\ IF get_count(ReleasedFrom, last.name) >= last.n
          THEN /\ last.ret
               /\ Counts(ReleasedTo) =
                    [Counts(ReleasedFrom) EXCEPT ![last.name] = @ - last.n]
          ELSE /\ ~last.ret
               /\ Counts(ReleasedTo) = Counts(ReleasedFrom)
       /\ Amounts(resources) = Amounts(last.pre.resources)
       /\ last.notes = << >>

\* One of two farms was demolished after the wood they cost was spent.
DemolishOneOfTwoWitness ==
    /\ last.op = "demolish"
    /\ last.name = "farm"
    /\ last.n = 1
    /\ last.ret
    /\ last.pre.buildings["farm"].count = 2
    /\ buildings["farm"].count = 1
    /\ resources["wood"].amount < Whole(1)

(***************************** save and load *******************************)
SaveUpgradeCatalog ==
    [n \in {"basic", "advanced", "training"} |->
       CASE n = "basic" ->
              Upgrade(n, Cost1("gold", Whole(1)), TRUE, {}, <<"advanced">>,
                      FALSE, None)
         [] n = "advanced" ->
              Upgrade(n, Cost1("wood", Whole(1)), FALSE, {"basic"}, << >>,
                      FALSE, None)
         [] OTHER ->
              Upgrade(n, Cost1("gold", Whole(1)), TRUE, {}, << >>, TRUE, Some(2))]

\* A session with resources, one structure type, one worker type that also
\* produces, and three upgrades.
InitSave ==
    /\ resources = [n \in {"gold", "wood"} |->
                      IF n = "gold" THEN Resource(n, Whole(5), Some(Whole(5)), 0)
                      ELSE Resource(n, Whole(2), Some(Whole(2)), 0)]
    /\ buildings = [n \in {"farm"} |->
                      Building(n, Cost1("wood", Whole(1)), Cost1("gold", 1),
                               EmptyDict, TRUE, None)]
    /\ units = [n \in {"peasant"} |->
                  Unit(n, Cost1("gold", Whole(1)), Cost1("wood", 1),
                       Cost1("gold", 1), TRUE, Some(2))]
    /\ upgrades = SaveUpgradeCatalog
    /\ metadata = NewMetadata
    /\ save_file = None
    /\ saved_from = None
    /\ game2 = None
    /\ purchase_log = [n \in DOMAIN upgrades |-> 0]
    /\ observers = NoObservers
    /\ InitSched
    /\ last = Call("init", "", 0, EmptyDict, TRUE, 0, << >>)

\* game.save_game(filepath)
SaveGame ==
    /\ save_file' = Some(save_data(Current))
    /\ saved_from' = Some(Current)
    /\ last' = Call("save_game", "", 0, EmptyDict, TRUE, 0, << >>)
    /\ UNCHANGED <<resources, buildings, units, upgrades, metadata, game2,
                   purchase_log, sched, observers>>

\* game2 = GameState(); game2.load_game(filepath)
LoadFresh ==
    LET r == load_game(FreshGame, save_file)
    IN /\ game2' = Some(r.game)
       /\ last' = Call("load_game", "", 0, EmptyDict, r.ret, 0, << >>)
       /\ UNCHANGED <<resources, buildings, units, upgrades, metadata,
                      save_file, saved_from, purchase_log, sched, observers>>

\* name -> (purchased, times_purchased)
Purchases(upgs) == [n \in DOMAIN upgs |-> <<upgs[n].purchased, upgs[n].times_purchased>>]

\* The session plays until it saves; the file is a value, and what the
\* session did after writing it could not change what a load reads.
PlayBuild == save_file = None /\ Build

PlayRecruit == save_file = None /\ Recruit

PlayPurchase == save_file = None /\ Purchase

\* A record without its section k.
Drop(data, k) == [x \in DOMAIN data \ {k} |-> data[x]]

\* The files the session is asked to load: a path with no file, the
\* session's own save, and the record of another, empty session with one
\* top-level section missing.
Files ==
    {None, save_file}
        \cup {Some(Drop(save_data(FreshGame), k)) : k \in required_keys}

\* game.load_game(filepath) on the running session.  Every load of a record
\* with producing workers raises the generation rates again; rates are
\* explored up to MaxGenRate.
LoadGame ==
    \E file \in Files :
        LET r == load_game(Current, file)
        IN /\ RatesInRange(r.game.resources)
           /\ resources' = r.game.resources
           /\ buildings' = r.game.buildings
           /\ units' = r.game.units
           /\ upgrades' = r.game.upgrades
           /\ metadata' = r.game.metadata
           /\ purchase_log' = [n \in DOMAIN r.game.upgrades |-> 0]
           /\ last' = Call("game.load_game", "", 0, EmptyDict, r.ret, file, << >>)
           /\ UNCHANGED <<save_file, saved_from, game2, sched, observers>>

NextSave ==
    \/ PlayBuild
    \/ PlayRecruit
    \/ PlayPurchase
    \/ SaveGame
    \/ LoadFresh
    \/ LoadGame

SpecSave == InitSave /\ [][NextSave]_vars

(***************************** C3 ******************************************)
\* C3: after save_game and a load_game of that file into a fresh GameState,
\* the fresh GameState holds the resource amounts, the structure and worker
\* counts and the purchase state (purchased, times_purchased) of every
\* upgrade, hence the set of purchased upgrades, that the saving coordinator
\* held when it saved.
SaveLoadRoundTrip ==
    (last.op = "load_game" /\ last.ret)
    => /\ Amounts(game2[1].resources) = Amounts(saved_from[1].resources)
       /\ Counts(game2[1].buildings) = Counts(saved_from[1].buildings)
       /\ Counts(game2[1].units) = Counts(saved_from[1].units)
       /\ Purchases(game2[1].upgrades) = Purchases(saved_from[1].upgrades)
       /\ {n \in DOMAIN game2[1].upgrades : Bought(game2[1].upgrades, n)}
            = {n \in DOMAIN saved_from[1].upgrades : Bought(saved_from[1].upgrades, n)}

\* A loaded session that had built, recruited, bought an upgrade and bought
\* the repeatable one twice.
LoadedRichSessionWitness ==
    /\ last.op = "load_game"
    /\ last.ret
    /\ game2[1].buildings["farm"].count > 0
    /\ game2[1].units["peasant"].count > 0
    /\ game2[1].upgrades["basic"].purchased
    /\ game2[1].upgrades["training"].times_purchased = 2

(***************************** C20 *****************************************)
\* The file of the last game.load_game call does not exist, or its record
\* lacks one of the five required top-level sections.
UnloadableFile ==
    \/ last.val = None
    \/ \E k \in {"metadata", "resources", "buildings", "units", "upgrades"} :
          k \notin DOMAIN last.val[1]

\* C20: load_game reported failure when the file did not exist or its record
\* lacked one of the five required sections, and left metadata, ledger, both
\* registries and the upgrade graph exactly as they were before the call.
LoadFailureLeavesState ==
    (last.op = "game.load_game" /\ UnloadableFile)
    => (~last.ret /\ Current = last.pre)

\* A session that had built, recruited and bought was asked to load a record
\* that lacks only its 'upgrades' section.
LoadWithoutUpgradesWitness ==
    /\ last.op = "game.load_game"
    /\ last.val # None
    /\ DOMAIN last.val[1] = {"metadata", "resources", "buildings", "units"}
    /\ ~last.ret
    /\ buildings["farm"].count > 0
    /\ units["peasant"].count > 0
    /\ upgrades["basic"].purchased

(***************************** the registries' ticks ***********************)
\* Amounts here are small numerators: a farm yields gold, a mine turns gold
\* into wood, a peasant yields less gold than its upkeep takes.
TickBuildingCatalog ==
    [n \in {"farm", "mine"} |->
       IF n = "farm"
       THEN Building(n, Cost1("wood", 1), Cost1("gold", 2), EmptyDict, TRUE, Some(1))
       ELSE Building(n, Cost1("gold", 1), Cost1("wood", 1), Cost1("gold", 3),
                     TRUE, Some(1))]

TickUnitCatalog ==
    [n \in {"peasant"} |->
       Unit(n, Cost1("gold", 1), Cost1("gold", 1), Cost2("gold", 2, "wood", 1),
            TRUE, Some(2))]

InitTick ==
    /\ resources = [n \in {"gold", "wood"} |->
                      IF n = "gold" THEN Resource(n, 2, Some(6), 0)
                      ELSE Resource(n, 1, Some(2), 0)]
    /\ buildings = TickBuildingCatalog
    /\ units = TickUnitCatalog
    /\ upgrades = EmptyDict
    /\ metadata = NewMetadata
    /\ save_file = None
    /\ saved_from = None
    /\ game2 = None
    /\ purchase_log = [n \in DOMAIN upgrades |-> 0]
    /\ observers = NoObservers
    /\ InitSched
    /\ last = Call("init", "", 0, EmptyDict, TRUE, 0, << >>)

\* resources.add(name, amount): income from outside the registries.
Earn ==
    \E name \in DOMAIN resources, amount \in 1..MaxDelta :
        LedgerCall("add", name, amount, EmptyDict, add(resources, name, amount))

BuildOne ==
    \E name \in DOMAIN buildings :
        LET r == build(buildings, resources, name, 1)
        IN RatesInRange(r.resources) /\ BuildingCall("build", name, 1, r)

DemolishOne ==
    \E name \in DOMAIN buildings :
        LET r == demolish(buildings, resources, name, 1)
        IN RatesInRange(r.resources) /\ BuildingCall("demolish", name, 1, r)

RecruitOne ==
    \E name \in DOMAIN units :
        LET r == recruit(units, resources, name, 1)
        IN RatesInRange(r.resources) /\ UnitCall("recruit", name, 1, r)

DismissOne ==
    \E name \in DOMAIN units :
        LET r == dismiss(units, resources, name, 1)
        IN RatesInRange(r.resources) /\ UnitCall("dismiss", name, 1, r)

\* A registry's update_production(delta_time), called on its own.
RegistryTick(op, delta_time, r) ==
    /\ resources' = r.resources
    /\ last' = Call(op, "", delta_time, EmptyDict, r.ret, r.val, r.notes)
    /\ UNCHANGED <<buildings, units, upgrades, metadata, save_file, saved_from,
                   game2, purchase_log, sched, observers>>

BuildingsUpdateProduction ==
    \E delta_time \in 1..MaxDt :
        RegistryTick("buildings.update_production", delta_time,
                     Building_update_production(buildings, resources, delta_time))

UnitsUpdateProduction ==
    \E delta_time \in 1..MaxDt :
        RegistryTick("units.update_production", delta_time,
                     Unit_update_production(units, resources, delta_time))

NextRegistries ==
    \/ Earn
    \/ BuildOne
    \/ DemolishOne
    \/ RecruitOne
    \/ DismissOne
    \/ BuildingsUpdateProduction
    \/ UnitsUpdateProduction

SpecRegistries == InitTick /\ [][NextRegistries]_vars

\* What the ticking registry's owned entities produce and consume of
\* resource r per unit of time, before the last call.
Ticked == IF last.op = "buildings.update_production"
          THEN last.pre.buildings ELSE last.pre.units
ConsumeField == IF last.op = "buildings.update_production"
                THEN "consumes" ELSE "upkeep"
ProducedRate(r) == SumRates(Ticked, DOMAIN Ticked, "produces", r)
ConsumedRate(r) == SumRates(Ticked, DOMAIN Ticked, ConsumeField, r)

\* The resources some owned entity of the ticking registry consumes.
ConsumedResources ==
    {r \in DOMAIN resources :
        \E n \in DOMAIN Ticked :
            Ticked[n].count # 0 /\ r \in DOMAIN Ticked[n][ConsumeField]}

\* An amount x of resource r, held back by r's storage cap.
Capped(r, x) ==
    IF last.pre.resources[r].max_storage = None THEN x
    ELSE Min(x, last.pre.resources[r].max_storage[1])

\* The amount of r available after the tick's production, and the
\* consumption the tick owes of r.
AvailableAfterProduction(r) ==
    Capped(r, last.pre.resources[r].amount + ProducedRate(r) * last.n)
Owed(r) == ConsumedRate(r) * last.n

(***************************** C13 *****************************************)
\* C13: the workers' update_production deducted, of every upkeep resource,
\* min(upkeep rate * count * delta_time, amount available after production):
\* the amount is never below 0, a shortfall leaves exactly 0, and no spend of
\* the tick was refused.
UpkeepIsPartialSpend ==
    (last.op = "units.update_production")
    => \A r \in DOMAIN resources :
          /\ resources[r].amount =
                AvailableAfterProduction(r) - Min(Owed(r), AvailableAfterProduction(r))
          /\ resources[r].amount >= 0
          /\ Owed(r) > AvailableAfterProduction(r) => resources[r].amount = 0
          /\ r \in ConsumedResources => last.val[r]

\* A tick of two peasants that owed more gold than production left available.
UpkeepShortfallWitness ==
    /\ last.op = "units.update_production"
    /\ last.pre.units["peasant"].count = 2
    /\ last.pre.resources["gold"].amount > 0
    /\ Owed("gold") > AvailableAfterProduction("gold")
    /\ resources["gold"].amount = 0

(***************************** C14 *****************************************)
\* C14: the structures' update_production deducts, of every consumed
\* resource, min(consume rate * count * delta_time, amount available after
\* production), so that a ledger holding less than the consumption owed is
\* left with 0 of it.
ConsumptionIsPartialSpend ==
    (last.op = "buildings.update_production")
    => \A r \in DOMAIN resources :
          /\ resources[r].amount =
                AvailableAfterProduction(r) - Min(Owed(r), AvailableAfterProduction(r))
          /\ Owed(r) > AvailableAfterProduction(r) => resources[r].amount = 0

(***************************** C15 *****************************************)
\* C15: in a registry's tick production is added before consumption is
\* spent: consumption of a resource that exceeds its amount before the tick,
\* but not that amount plus what the registry produced of it in the tick
\* (as far as the storage cap let it in), was paid in full.
ProductionBeforeConsumption ==
    (last.op \in {"buildings.update_production", "units.update_production"})
    => \A r \in ConsumedResources :
          (/\ Owed(r) > last.pre.resources[r].amount
           /\ Owed(r) <= AvailableAfterProduction(r))
          => /\ resources[r].amount = AvailableAfterProduction(r) - Owed(r)
             /\ last.val[r]

\* A farm and a mine: the mine's gold for the tick was more than the ledger
\* held before the tick and was paid out of the farm's gold of the same tick.
PaidFromSameTickWitness ==
    /\ last.op = "buildings.update_production"
    /\ last.pre.buildings["farm"].count = 1
    /\ last.pre.buildings["mine"].count = 1
    /\ Owed("gold") > last.pre.resources["gold"].amount
    /\ resources["gold"].amount = AvailableAfterProduction("gold") - Owed("gold")
    /\ last.val["gold"]

(***************************** the coordinator's update ********************)
\* game.update(delta_time), explored for MaxTicks calls.
Update ==
    \E delta_time \in 1..MaxDt :
        LET r == update(Current, delta_time)
        IN /\ metadata.tick_count < MaxTicks
           /\ resources' = r.game.resources
           /\ metadata' = r.game.metadata
           /\ last' = Call("update", "", delta_time, EmptyDict, TRUE, 0, r.notes)
           /\ UNCHANGED <<buildings, units, upgrades, save_file, saved_from,
                          game2, purchase_log, sched, observers>>

NextUpdate ==
    \/ Earn
    \/ BuildOne
    \/ RecruitOne
    \/ Update

SpecUpdate == InitTick /\ [][NextUpdate]_vars

(***************************** C16 *****************************************)
\* The amount of resource r through the stages of the last update, computed
\* from the state before it: after the ledger's generate, after the
\* structures' production, after their consumption (a spend that the ledger
\* cannot pay is refused), after the workers' production, and after their
\* upkeep.
Rate(entities, f, r) == SumRates(entities, DOMAIN entities, f, r)

AfterGenerate(r) ==
    IF last.pre.resources[r].generation_rate > 0
    THEN Capped(r, last.pre.resources[r].amount
                     + last.pre.resources[r].generation_rate * last.n)
    ELSE last.pre.resources[r].amount

AfterStructuresProduce(r) ==
    Capped(r, AfterGenerate(r) + Rate(last.pre.buildings, "produces", r) * last.n)

AfterStructuresConsume(r) ==
    IF Rate(last.pre.buildings, "consumes", r) * last.n <= AfterStructuresProduce(r)
    THEN AfterStructuresProduce(r) - Rate(last.pre.buildings, "consumes", r) * last.n
    ELSE AfterStructuresProduce(r)

AfterWorkersProduce(r) ==
    Capped(r, AfterStructuresConsume(r)
                + Rate(last.pre.units, "produces", r) * last.n)

AfterWorkersUpkeep(r) ==
    AfterWorkersProduce(r)
        - Min(Rate(last.pre.units, "upkeep", r) * last.n, AfterWorkersProduce(r))

\* C16: update(delta_time) raised tick_count by exactly 1 and total_playtime
\* by delta_time and applied the ledger's generate, then the structure
\* registry's tick, then the worker registry's tick, in that order: every
\* amount is what these stages leave, one after the other.
UpdateRunsStagesInOrder ==
    (last.op = "update")
    => /\ metadata.tick_count = last.pre.metadata.tick_count + 1
       /\ metadata.total_playtime = last.pre.metadata.total_playtime + last.n
       /\ \A r \in DOMAIN resources : resources[r].amount = AfterWorkersUpkeep(r)
       /\ Counts(buildings) = Counts(last.pre.buildings)
       /\ Counts(units) = Counts(last.pre.units)

\* An update in which the mine's gold was more than the ledger held before
\* it, even with the structures' own production, and was paid out of what
\* generate had just added; the workers then took upkeep as well.
DrawsOnGeneratedWitness ==
    /\ last.op = "update"
    /\ last.pre.buildings["mine"].count = 1
    /\ last.pre.units["peasant"].count > 0
    /\ Rate(last.pre.buildings, "consumes", "gold") * last.n
         > Capped("gold", last.pre.resources["gold"].amount
                            + Rate(last.pre.buildings, "produces", "gold") * last.n)
    /\ Rate(last.pre.buildings, "consumes", "gold") * last.n
         <= AfterStructuresProduce("gold")
    /\ AfterStructuresConsume("gold") < AfterStructuresProduce("gold")

(***************************** the tick scheduler **************************)
\* GameLoop(tick_rate): a scheduler created some time after the epoch, with
\* a tick_rate of 1.0 or 1.5 seconds, no callback registered, not started.
InitTicks ==
    /\ resources = EmptyDict
    /\ buildings = EmptyDict
    /\ units = EmptyDict
    /\ upgrades = EmptyDict
    /\ metadata = NewMetadata
    /\ save_file = None
    /\ saved_from = None
    /\ game2 = None
    /\ purchase_log = [n \in DOMAIN upgrades |-> 0]
    /\ observers = NoObservers
    /\ \E tick_rate \in {2, 3} : tick_system = TickSystem(tick_rate)
    /\ clock = 3
    /\ tick_log = NewTickLog
    /\ sol_timer = 0
    /\ last = Call("init", "", 0, EmptyDict, TRUE, 0, << >>)

\* A step of the scheduler: the simulation core is not touched.
SchedCall(op, name, ret, ts, now, log) ==
    /\ tick_system' = ts
    /\ clock' = now
    /\ tick_log' = [log EXCEPT !.tick_count_before = tick_system.tick_count]
    /\ last' = Call(op, name, 0, EmptyDict, ret, 0, << >>)
    /\ UNCHANGED <<resources, buildings, units, upgrades, metadata, save_file,
                   saved_from, game2, purchase_log, observers, sol_timer>>

\* The history after d more units of time.
Passed(log, d) ==
    [log EXCEPT !.running_time = @ + (IF log.running THEN d ELSE 0)]

\* Time passes between two steps of the loop (time.sleep, blocking input).
Sleep ==
    \E d \in 1..MaxSleep :
        /\ clock + d <= MaxClock
        /\ SchedCall("sleep", "", TRUE, tick_system, clock + d, Passed(tick_log, d))

\* GameLoop.start, and the 'pause' command while the game is paused.
Start ==
    /\ ~tick_log.running
    /\ SchedCall("start", "", TRUE, start(tick_system, clock), clock,
                 [tick_log EXCEPT !.started = TRUE, !.running = TRUE,
                                  !.boundary = clock, !.started_at = clock,
                                  !.run_deltas = 0])

\* GameLoop.stop, and the 'pause' command while the game is running.
Stop ==
    /\ tick_log.running
    /\ SchedCall("stop", "", TRUE, stop(tick_system), clock,
                 [tick_log EXCEPT !.running = FALSE])

ShouldTick ==
    SchedCall("should_tick", "", should_tick(tick_system, clock), tick_system,
              clock, tick_log)

RegisterCallback ==
    \E callback \in Callbacks :
        SchedCall("register_callback", callback, TRUE,
                  register_callback(tick_system, callback), clock,
                  [tick_log EXCEPT !.registered =
                       IF callback \in {@[i] : i \in 1..Len(@)} THEN @
                       ELSE Append(@, callback)])

UnregisterCallback ==
    \E callback \in Callbacks :
        SchedCall("unregister_callback", callback, TRUE,
                  unregister_callback(tick_system, callback), clock,
                  [tick_log EXCEPT !.registered =
                       SelectSeq(@, LAMBDA c : c # callback)])

\* GameLoop.update: if self.tick_system.should_tick(): self.tick_system.tick().
\* tick() reads the time again, d after should_tick() read it.
LoopUpdate ==
    IF ~should_tick(tick_system, clock)
    THEN SchedCall("loop_update", "", FALSE, tick_system, clock,
                   [tick_log EXCEPT !.calls = << >>])
    ELSE \E d \in 0..1 :
            LET now == clock + d
                r == tick(tick_system, now)
            IN /\ now <= MaxClock
               /\ SchedCall("loop_update", "", TRUE, r.tick_system, now,
                            [Passed(tick_log, d) EXCEPT
                                !.boundary = now,
                                !.elapsed = now - tick_log.boundary,
                                !.delta_total = @ + r.tick_system.delta_time,
                                !.run_deltas = @ + r.tick_system.delta_time,
                                !.calls = r.calls])

NextTicks ==
    \/ Sleep
    \/ Start
    \/ Stop
    \/ ShouldTick
    \/ RegisterCallback
    \/ UnregisterCallback
    \/ LoopUpdate

SpecTicks == InitTicks /\ [][NextTicks]_vars

\* The callbacks that the latest tick() invoked, in the order it invoked them.
Invoked == [i \in 1..Len(tick_log.calls) |-> tick_log.calls[i].callback]

\* The latest loop_update found should_tick() True and ran tick().
RoundTicked == last.op = "loop_update" /\ last.ret

\* What one round of should_tick()/tick() did, whatever time had elapsed:
\* one tick, each callback once, delta_time the whole time since the latest
\* of the previous tick() and the last start(), and no tick left to catch up.
OneTickPerRound ==
    /\ tick_system.tick_count = tick_log.tick_count_before + 1
    /\ Invoked = tick_log.registered
    /\ tick_system.delta_time = tick_log.elapsed
    /\ tick_system.delta_time >= tick_system.tick_rate
    /\ ~should_tick(tick_system, clock)

(***************************** C17 *****************************************)
\* C17 as stated: one should_tick/tick round fires exactly one tick however
\* many tick_rate intervals elapsed (tick_count grows by 1, each callback runs
\* once, delta_time is the full time since the more recent of the previous
\* tick() and the last start(), no catch-up tick), and the delta_times of the
\* ticks add up to the time the scheduler has spent running.
ThresholdTicking ==
    RoundTicked => (OneTickPerRound /\ tick_log.delta_total = tick_log.running_time)

\* C17 (amended): as above, with the delta_times of the ticks since the last
\* start() adding up to the time elapsed since that start().
ThresholdTickingSinceStart ==
    RoundTicked => (OneTickPerRound
                  /\ tick_log.run_deltas = clock - tick_log.started_at)

\* A round after a restart in which at least two intervals had elapsed: one
\* tick, with all of that time as its delta_time.
MissedIntervalsWitness ==
    /\ RoundTicked
    /\ tick_system.delta_time >= 2 * tick_system.tick_rate
    /\ tick_log.run_deltas < tick_log.delta_total
    /\ tick_system.tick_callbacks # << >>

(***************************** C18 *****************************************)
\* C18: tick() invoked every registered callback, in registration order, with
\* the tick's delta_time, also after a callback that raised, and advanced
\* the tick counter.
TickRunsEveryCallback ==
    RoundTicked
    => /\ Len(tick_log.calls) = Len(tick_log.registered)
       /\ \A i \in 1..Len(tick_log.calls) :
             /\ tick_log.calls[i].callback = tick_log.registered[i]
             /\ tick_log.calls[i].delta_time = tick_system.delta_time
       /\ tick_system.tick_count = tick_log.tick_count_before + 1

\* A tick in which the first callback raised and the one registered after it
\* ran all the same.
CallbackAfterRaiseWitness ==
    /\ RoundTicked
    /\ Len(tick_log.calls) = 2
    /\ tick_log.calls[1].raised
    /\ tick_log.calls[2].callback = "update"

(***************************** C19 *****************************************)
\* C19: should_tick() returned True if and only if the latest of start() and
\* stop() was start() and the time since the latest tick boundary (tick() or
\* start()) is at least tick_rate; it returned False before the first start()
\* and after a stop().
ShouldTickExact ==
    (last.op = "should_tick")
    => /\ last.ret <=> (/\ tick_log.running
                        /\ clock - tick_log.boundary >= tick_system.tick_rate)
       /\ ~tick_log.started => ~last.ret
       /\ ~tick_log.running => ~last.ret

\* should_tick() answered False after a stop() although more than tick_rate
\* had elapsed since the last tick.
StoppedShouldNotTickWitness ==
    /\ last.op = "should_tick"
    /\ ~last.ret
    /\ tick_log.started
    /\ ~tick_log.running
    /\ tick_system.tick_count > 0
    /\ clock - tick_log.boundary >= tick_system.tick_rate

(***************************** registering content *************************)
\* A small session: two resources, one structure type, one worker type and
\* one upgrade, each of which it can afford once.
InitContent ==
    /\ resources = [n \in {"gold", "wood"} |->
                      IF n = "gold" THEN Resource(n, Whole(2), Some(Whole(4)), 0)
                      ELSE Resource(n, Whole(1), None, 0)]
    /\ buildings = [n \in {"farm"} |->
                      Building(n, Cost1("wood", Whole(1)), Cost1("gold", 1),
                               EmptyDict, TRUE, None)]
    /\ units = [n \in {"peasant"} |->
                  Unit(n, Cost1("gold", Whole(1)), EmptyDict, Cost1("gold", 1),
                       TRUE, Some(1))]
    /\ upgrades = [n \in {"basic"} |->
                     Upgrade(n, Cost1("gold", Whole(1)), TRUE, {}, << >>,
                             FALSE, None)]
    /\ metadata = NewMetadata
    /\ save_file = None
    /\ saved_from = None
    /\ game2 = None
    /\ purchase_log = [n \in DOMAIN upgrades |-> 0]
    /\ observers = NoObservers
    /\ InitSched
    /\ last = Call("init", "", 0, EmptyDict, TRUE, 0, << >>)

\* The session's starting content is registered before it plays; it writes
\* one save and goes on registering content after it: a name that is not
\* registered yet is explored once the save exists.
Late(registry, name) == name \in DOMAIN registry \/ save_file # None

\* A registration call: it returned the new entry (ret) or raised ValueError.
Registration(op, name, raised) ==
    /\ last' = Call(op, name, 0, EmptyDict, ~raised, 0, << >>)
    /\ UNCHANGED <<metadata, save_file, saved_from, game2, sched, observers>>

\* resources.add_resource(name, initial=1.0)
AddResource ==
    \E name \in {"gold", "stone"} :
        LET r == add_resource(resources, name, Whole(1), None, 0)
        IN /\ Late(resources, name)
           /\ resources' = r.resources
           /\ Registration("add_resource", name, r.raised)
           /\ UNCHANGED <<buildings, units, upgrades, purchase_log, observers>>

\* buildings.register_building(name, cost={'gold': 2.0}, unlocked=True)
RegisterBuilding ==
    \E name \in {"farm", "mine"} :
        LET r == register_building(buildings, name, Cost1("gold", Whole(2)),
                                   EmptyDict, EmptyDict, TRUE, None)
        IN /\ Late(buildings, name)
           /\ buildings' = r.buildings
           /\ Registration("register_building", name, r.raised)
           /\ UNCHANGED <<resources, units, upgrades, purchase_log, observers>>

\* units.register_unit(name, cost={'gold': 2.0}, unlocked=True)
RegisterUnit ==
    \E name \in {"peasant", "miner"} :
        LET r == register_unit(units, name, Cost1("gold", Whole(2)), EmptyDict,
                               EmptyDict, TRUE, None)
        IN /\ Late(units, name)
           /\ units' = r.units
           /\ Registration("register_unit", name, r.raised)
           /\ UNCHANGED <<resources, buildings, upgrades, purchase_log, observers>>

\* upgrades.register_upgrade(name, cost={'gold': 2.0}, unlocked=True)
RegisterUpgrade ==
    \E name \in {"basic", "elite"} :
        LET r == register_upgrade(upgrades, name, Cost1("gold", Whole(2)),
                                  EmptyDict, TRUE, {}, << >>, FALSE, None)
        IN /\ Late(upgrades, name)
           /\ upgrades' = r.upgrades
           /\ purchase_log' = [n \in DOMAIN r.upgrades |->
                                 IF n \in DOMAIN purchase_log
                                 THEN purchase_log[n] ELSE 0]
           /\ Registration("register_upgrade", name, r.raised)
           /\ UNCHANGED <<resources, buildings, units, observers>>

SaveOnce == save_file = None /\ SaveGame

\* The session plays, saves, goes on registering content, and loads.
NextContent ==
    \/ PlayBuild
    \/ PlayRecruit
    \/ PlayPurchase
    \/ AddResource
    \/ RegisterBuilding
    \/ RegisterUnit
    \/ RegisterUpgrade
    \/ SaveOnce
    \/ LoadGame

SpecContent == InitContent /\ [][NextContent]_vars

(***************************** C21 *****************************************)
\* The names registered in the four registries of coordinator g.
Registered(g) ==
    [resources |-> DOMAIN g.resources, buildings |-> DOMAIN g.buildings,
     units |-> DOMAIN g.units, upgrades |-> DOMAIN g.upgrades]

\* C21: after a load_game that returned True, the resources, structures,
\* workers and upgrades the session holds are exactly those of the loaded
\* record: every entry of the record is there, and no entry that only the
\* session before the load had is left.
LoadReplacesWholesale ==
    (last.op = "game.load_game" /\ last.ret)
    => /\ Registered(Current) = Registered(last.val[1])
       /\ \A k \in DOMAIN Registered(Current) :
             (Registered(last.pre)[k] \ Registered(last.val[1])[k])
                 \cap Registered(Current)[k] = {}

\* The session registered a resource, a structure, a worker and an upgrade
\* after it saved, then loaded the save, which holds none of them.
LoadDropsLateContentWitness ==
    /\ last.op = "game.load_game"
    /\ last.ret
    /\ "stone" \in DOMAIN last.pre.resources
    /\ "mine" \in DOMAIN last.pre.buildings
    /\ "miner" \in DOMAIN last.pre.units
    /\ "elite" \in DOMAIN last.pre.upgrades
    /\ "stone" \notin DOMAIN last.val[1].resources
    /\ "mine" \notin DOMAIN last.val[1].buildings
    /\ "miner" \notin DOMAIN last.val[1].units
    /\ "elite" \notin DOMAIN last.val[1].upgrades

(***************************** operations under observation ****************)
\* The observers a game registers; "faulty" raises whenever it is called.
ObserverNames == {"log", "faulty", "stats"}

\* Callback lists: up to MaxObservers observers, each registered once.
ObserverLists ==
    {l \in UNION {[1..k -> ObserverNames] : k \in 0..MaxObservers} :
        \A i, j \in 1..Len(l) : i # j => l[i] # l[j]}

\* The small session, after on_transaction / on_build / on_recruit /
\* on_purchase registered the observers of the ledger and of the registries.
InitObservers ==
    /\ resources = [n \in {"gold", "wood"} |->
                      IF n = "gold" THEN Resource(n, Whole(2), Some(Whole(3)), 0)
                      ELSE Resource(n, Whole(1), None, 0)]
    /\ buildings = [n \in {"farm"} |->
                      Building(n, Cost2("gold", Whole(1), "wood", Whole(1)),
                               Cost1("gold", 1), EmptyDict, TRUE, None)]
    /\ units = [n \in {"peasant"} |->
                  Unit(n, Cost1("gold", Whole(1)), EmptyDict, Cost1("gold", 1),
                       TRUE, Some(1))]
    /\ upgrades = [n \in {"basic"} |->
                     Upgrade(n, Cost1("gold", Whole(1)), TRUE, {}, << >>,
                             FALSE, None)]
    /\ metadata = NewMetadata
    /\ save_file = None
    /\ saved_from = None
    /\ game2 = None
    /\ purchase_log = [n \in DOMAIN upgrades |-> 0]
    /\ \E ledger \in ObserverLists, registry \in ObserverLists :
          observers = [transaction |-> ledger, build |-> registry,
                       recruit |-> registry, purchase |-> registry]
    /\ InitSched
    /\ last = Call("init", "", 0, EmptyDict, TRUE, 0, << >>)

\* An operation that notifies observers: its notifications are dispatched
\* in order; returned tells that no exception left the call.
Observed(op, name, n, r, blds, uns, upgs) ==
    LET dispatched == dispatch(observers, r.notes)
    IN /\ resources' = r.resources
       /\ buildings' = blds
       /\ units' = uns
       /\ upgrades' = upgs
       /\ purchase_log' = IF op = "purchase" /\ r.ret
                          THEN [purchase_log EXCEPT ![name] = @ + 1]
                          ELSE purchase_log
       /\ last' = Call(op, name, n, EmptyDict, r.ret, 0, r.notes)
                    @@ [calls |-> dispatched.calls,
                        returned |-> ~dispatched.escaped]
       /\ UNCHANGED <<metadata, save_file, saved_from, game2, observers, sched>>

ObservedAdd ==
    Observed("add", "gold", Whole(1), add(resources, "gold", Whole(1)),
             buildings, units, upgrades)

ObservedBuild ==
    LET r == build(buildings, resources, "farm", 1)
    IN Observed("build", "farm", 1, r, r.buildings, units, upgrades)

ObservedRecruit ==
    LET r == recruit(units, resources, "peasant", 1)
    IN Observed("recruit", "peasant", 1, r, buildings, r.units, upgrades)

ObservedPurchase ==
    LET r == purchase(upgrades, resources, "basic")
    IN Observed("purchase", "basic", 0, r, buildings, units, r.upgrades)

NextObservers ==
    \/ ObservedAdd
    \/ ObservedBuild
    \/ ObservedRecruit
    \/ ObservedPurchase

SpecObservers == InitObservers /\ [][NextObservers]_vars

(***************************** C23 *****************************************)
\* What the last operation does to a session with no observer registered.
Unobserved ==
    LET g == last.pre
        r == CASE last.op = "add" -> add(g.resources, last.name, last.n)
               [] last.op = "build" ->
                    build(g.buildings, g.resources, last.name, last.n)
               [] last.op = "recruit" ->
                    recruit(g.units, g.resources, last.name, last.n)
               [] OTHER -> purchase(g.upgrades, g.resources, last.name)
    IN [ret |-> r.ret,
        game |-> Game(r.resources,
                      IF last.op = "build" THEN r.buildings ELSE g.buildings,
                      IF last.op = "recruit" THEN r.units ELSE g.units,
                      IF last.op = "purchase" THEN r.upgrades ELSE g.upgrades,
                      g.metadata)]

\* The observers invoked for one notification, in invocation order.
InvokedFor(note) ==
    LET mine == SelectSeq(last.calls, LAMBDA c : c.note = note)
    IN [i \in 1..Len(mine) |-> mine[i].callback]

\* C23: whatever the registered transaction, build, recruit and purchase
\* observers do, raising included, the operation returns, with the return
\* value and the state change it has with no observer registered, and each
\* of its notifications reaches every observer of its list, those registered
\* after a raising one too, in registration order.
ObserverFailureContained ==
    last.op \in {"add", "build", "recruit", "purchase"}
    => /\ last.returned
       /\ last.ret = Unobserved.ret
       /\ Current = Unobserved.game
       /\ \A k \in 1..Len(last.notes) :
             InvokedFor(last.notes[k]) = callbacks_of(observers, last.notes[k])

\* A build paid in two resources, where the first transaction observer and
\* the second build observer raise and others are registered after them.
RaisingObserversWitness ==
    /\ last.op = "build"
    /\ last.ret
    /\ observers.transaction = <<"faulty", "log", "stats">>
    /\ observers.build = <<"log", "faulty", "stats">>
    /\ Len(last.notes) = 3
    /\ Len(last.calls) = 9
    /\ last.calls[1].raised
    /\ ~last.calls[9].raised

(***************************** lookups by name *****************************)
\* A session with one entry in each registry and small amounts, so that the
\* ledger's calls with amounts up to MaxDelta reach every amount.
InitLookups ==
    /\ resources = [n \in {"gold", "wood"} |->
                      IF n = "gold" THEN Resource(n, 2, Some(3), 0)
                      ELSE Resource(n, 1, Some(2), 0)]
    /\ buildings = [n \in {"farm"} |->
                      Building(n, Cost1("wood", 1), Cost1("gold", 1), EmptyDict,
                               TRUE, Some(1))]
    /\ units = [n \in {"peasant"} |->
                  Unit(n, Cost1("gold", 1), EmptyDict, Cost1("gold", 1), TRUE,
                       Some(1))]
    /\ upgrades = [n \in {"basic"} |->
                     Upgrade(n, Cost1("gold", 1), TRUE, {}, << >>, FALSE, None)]
    /\ metadata = NewMetadata
    /\ save_file = None
    /\ saved_from = None
    /\ game2 = None
    /\ purchase_log = [n \in DOMAIN upgrades |-> 0]
    /\ observers = NoObservers
    /\ InitSched
    /\ last = Call("init", "", 0, EmptyDict, TRUE, 0, << >>)

\* resources.get_amount(name)
GetAmount ==
    \E name \in LedgerNames :
        /\ last' = Call("get_amount", name, 0, EmptyDict, TRUE,
                        get_amount(resources, name), << >>)
        /\ UNCHANGED <<resources, buildings, units, upgrades, metadata, save_file,
                       saved_from, game2, purchase_log, observers, sched>>

\* buildings.get_count(name) and units.get_count(name)
GetCount ==
    \/ \E name \in BuildingNames :
          /\ last' = Call("buildings.get_count", name, 0, EmptyDict, TRUE,
                          get_count(buildings, name), << >>)
          /\ UNCHANGED <<resources, buildings, units, upgrades, metadata,
                         save_file, saved_from, game2, purchase_log, observers,
                         sched>>
    \/ \E name \in UnitNames :
          /\ last' = Call("units.get_count", name, 0, EmptyDict, TRUE,
                          get_count(units, name), << >>)
          /\ UNCHANGED <<resources, buildings, units, upgrades, metadata,
                         save_file, saved_from, game2, purchase_log, observers,
                         sched>>

CanPurchase ==
    \E name \in UpgradeNames :
        Query("can_purchase", name, 0, can_purchase(upgrades, resources, name))

IsPurchased ==
    \E name \in UpgradeNames :
        Query("is_purchased", name, 0, is_purchased(upgrades, name))

\* The small session is played and asked about names it holds and names it
\* never registered ("stone", "mine", "tower", "castle", "knight", "miner",
\* every upgrade but "basic").
NextLookups ==
    \/ Add
    \/ Spend
    \/ SetAmount
    \/ Build
    \/ Recruit
    \/ Purchase
    \/ GetAmount
    \/ GetCount
    \/ CanBuild
    \/ CanRecruit
    \/ CanPurchase
    \/ IsPurchased

SpecLookups == InitLookups /\ [][NextLookups]_vars

(***************************** C24 *****************************************)
\* The registry the last call looked its name up in, before the call.
LookedUpIn ==
    CASE last.op \in {"get_amount", "add", "spend", "set_amount"} ->
           last.pre.resources
      [] last.op \in {"buildings.get_count", "can_build"} -> last.pre.buildings
      [] last.op \in {"units.get_count", "can_recruit"} -> last.pre.units
      [] OTHER -> last.pre.upgrades

\* C24: called with a name that was never registered, get_amount and add
\* return 0, spend and set_amount return False, get_count returns 0, and
\* can_build, can_recruit, can_purchase and is_purchased return False; the
\* call notifies nobody and leaves the ledger, the registries and the upgrade
\* graph as they were, so nothing is registered implicitly.
UnknownNameSafe ==
    (/\ last.op \in {"get_amount", "add", "spend", "set_amount",
                      "buildings.get_count", "units.get_count", "can_build",
                      "can_recruit", "can_purchase", "is_purchased"}
     /\ last.name \notin DOMAIN LookedUpIn)
    => /\ last.op \in {"get_amount", "add", "buildings.get_count",
                        "units.get_count"} => last.val = 0
       /\ last.op \in {"spend", "set_amount", "can_build", "can_recruit",
                        "can_purchase", "is_purchased"} => ~last.ret
       /\ last.notes = << >>
       /\ Current = last.pre

\* A played session was asked to set the amount of a resource it never
\* registered.
SetUnknownAmountWitness ==
    /\ last.op = "set_amount"
    /\ last.name = "stone"
    /\ last.n > 0
    /\ ~last.ret
    /\ "stone" \notin DOMAIN resources
    /\ buildings["farm"].count = 1
    /\ upgrades["basic"].purchased

(***************************** C28 *****************************************)
\* The registry the last registration call was made on, before the call.
RegisteredIn ==
    CASE last.op = "add_resource" -> last.pre.resources
      [] last.op = "register_building" -> last.pre.buildings
      [] last.op = "register_unit" -> last.pre.units
      [] OTHER -> last.pre.upgrades

\* C28: add_resource, register_building, register_unit and register_upgrade
\* called with a name that is already registered raise to the caller and
\* leave the ledger, the registries and the upgrade graph, the entry of that
\* name included, as they were.
DuplicateRegistrationRefused ==
    (/\ last.op \in {"add_resource", "register_building", "register_unit",
                      "register_upgrade"}
     /\ last.name \in DOMAIN RegisteredIn)
    => (~last.ret /\ Current = last.pre)

\* 'gold' was registered again, with another initial amount, after the
\* session had spent all of it.
DuplicateResourceWitness ==
    /\ last.op = "add_resource"
    /\ last.name = "gold"
    /\ ~last.ret
    /\ resources["gold"].amount = 0
    /\ resources["gold"].max_storage # None
    /\ units["peasant"].count = 1


(***************************** colony.sh ***********************************)
\* content/resources.py RESOURCES: name -> <<amount, max_storage>>.
RESOURCES ==
    [energy |-> <<Whole(20), Whole(100)>>, metal |-> <<Whole(10), Whole(50)>>,
     biomass |-> <<Whole(15), Whole(75)>>, colonists |-> <<Whole(3), Whole(10)>>]

\* content/structures.py STRUCTURES: name -> <<cost, production, consumption>>.
STRUCTURES ==
    [solar_array |-> <<[metal |-> Whole(5)], [energy |-> Whole(3)], EmptyDict>>,
     mining_rig |-> <<[metal |-> Whole(10), energy |-> Whole(5)],
                      [metal |-> Whole(3) \div 2], [energy |-> Whole(2)]>>,
     reclamation_bay |-> <<[metal |-> Whole(15), energy |-> Whole(8)],
                           [biomass |-> Whole(2)], [energy |-> Whole(3) \div 2]>>,
     hab_module |-> <<[metal |-> Whole(20), energy |-> Whole(10)],
                      EmptyDict, [energy |-> Whole(1) \div 2]>>,
     research_terminal |-> <<[metal |-> Whole(25), energy |-> Whole(15)],
                             EmptyDict, [energy |-> Whole(1)]>>]

\* content/research.py RESEARCH: name -> <<cost, effects>>, the multipliers
\* in tenths.
RESEARCH ==
    [efficient_extraction |->
        <<[metal |-> Whole(30), energy |-> Whole(20)],
          [metal_production_multiplier |-> 15]>>,
     closed_loop_bioreactor |->
        <<[metal |-> Whole(40), energy |-> Whole(25), biomass |-> Whole(10)],
          [biomass_production_multiplier |-> 15]>>,
     fusion_ignition |->
        <<[metal |-> Whole(50), energy |-> Whole(40)],
          [energy_production_multiplier |-> 20]>>,
     redundant_systems |->
        <<[metal |-> Whole(35), energy |-> Whole(30)],
          [energy_consumption_multiplier |-> 8]>>]

get_starting_resources ==
    [energy |-> Whole(20), metal |-> Whole(10), biomass |-> Whole(15),
     colonists |-> Whole(3)]

get_starting_structures == [solar_array |-> 1, hab_module |-> 1]

\* load_game_content(): a new GameState with every definition registered
\* under its own name (no registration raises), every structure and every
\* research unlocked, no structure owned.
load_game_content ==
    Game([n \in DOMAIN RESOURCES |->
            Resource(n, RESOURCES[n][1], Some(RESOURCES[n][2]), 0)],
         [n \in DOMAIN STRUCTURES |->
            Building(n, STRUCTURES[n][1], STRUCTURES[n][2], STRUCTURES[n][3],
                     TRUE, None)],
         EmptyDict,
         [n \in DOMAIN RESEARCH |->
            [Upgrade(n, RESEARCH[n][1], TRUE, {}, << >>, FALSE, None)
               EXCEPT !.effects = RESEARCH[n][2]]],
         NewMetadata)

\* The ledger after set_amount(name, amounts[name]) for every name of ks.
RECURSIVE set_amounts(_, _, _)
set_amounts(res, amounts, ks) ==
    IF ks = << >> THEN res
    ELSE set_amounts(set_amount(res, ks[1], amounts[ks[1]], TRUE).resources,
                     amounts, Tail(ks))

\* load_new_game(): the content, the starting amounts, the starting structure
\* counts assigned directly, and the session's metadata.
load_new_game ==
    LET g == load_game_content
        started == get_starting_structures
    IN Game(set_amounts(g.resources, get_starting_resources,
                        keys(get_starting_resources)),
            [n \in DOMAIN g.buildings |->
               IF n \in DOMAIN started
               THEN [g.buildings[n] EXCEPT !.count = started[n]]
               ELSE g.buildings[n]],
            g.units, g.upgrades,
            Store(Store(Store(g.metadata, "game_name", "colony.sh"), "sol", 0),
                  "started", TRUE))

\* load_save_game(save_file): the content, then GameState.load_game, whose
\* result is not looked at; load_game returns False and never raises, so
\* neither does this.
load_save_game(file) ==
    [game |-> load_game(load_game_content, file).game, raised |-> FALSE]

\* ColonyGame.load_game(): start_new_game() only in the except branches.
ColonyGame_load_game(file) ==
    LET r == load_save_game(file)
    IN IF r.raised THEN load_new_game ELSE r.game

\* self.game_state = g
ColonySession(op, file, g) ==
    /\ resources' = g.resources
    /\ buildings' = g.buildings
    /\ units' = g.units
    /\ upgrades' = g.upgrades
    /\ metadata' = g.metadata
    /\ purchase_log' = [n \in DOMAIN g.upgrades |-> 0]
    /\ last' = Call(op, "", 0, EmptyDict, TRUE, file, << >>)
    /\ UNCHANGED <<save_file, saved_from, game2, sched, observers>>

\* The first run of the program, past its main menu: there is no save file
\* yet, and the player chose [1] New Colony or [2] Load Colony.
InitColony ==
    /\ \E g \in {load_new_game, ColonyGame_load_game(None)} :
          /\ resources = g.resources
          /\ buildings = g.buildings
          /\ units = g.units
          /\ upgrades = g.upgrades
          /\ metadata = g.metadata
    /\ save_file = None
    /\ saved_from = None
    /\ game2 = None
    /\ purchase_log = [n \in DOMAIN upgrades |-> 0]
    /\ observers = NoObservers
    /\ InitSched
    /\ last = Call("init", "", 0, EmptyDict, TRUE, 0, << >>)

\* The build menu: game_state.buildings.build(building_name)
ColonyBuild ==
    \E name \in DOMAIN STRUCTURES :
        BuildingCall("build", name, 1, build(buildings, resources, name, 1))

\* The research menu: game_state.upgrades.purchase(upgrade_name)
ColonyResearch ==
    \E name \in DOMAIN RESEARCH :
        LET r == purchase(upgrades, resources, name)
        IN /\ upgrades' = r.upgrades
           /\ resources' = r.resources
           /\ purchase_log' = IF r.ret THEN [purchase_log EXCEPT ![name] = @ + 1]
                              ELSE purchase_log
           /\ last' = Call("purchase", name, 0, EmptyDict, r.ret, 0, r.notes)
           /\ UNCHANGED <<buildings, units, metadata, save_file, saved_from,
                          game2, sched, observers>>

\* The program is run again and the player chooses [1] New Colony.
ColonyStartNewGame == ColonySession("colony.start_new_game", None, load_new_game)

\* What is at the save path when the player chooses [2] Load Colony: nothing,
\* the session's last save, or a record cut short of its resources section.
ColonyFiles ==
    {None, save_file, Some(Drop(save_data(load_new_game), "resources"))}

\* The program is run again and the player chooses [2] Load Colony.
ColonyLoadGame ==
    \E file \in ColonyFiles :
        ColonySession("colony.load_game", file, ColonyGame_load_game(file))

\* The save command, the two menus, and the main menu of the next run.
NextColony ==
    \/ ColonyBuild
    \/ ColonyResearch
    \/ SaveGame
    \/ ColonyStartNewGame
    \/ ColonyLoadGame

SpecColony == InitColony /\ [][NextColony]_vars

(***************************** C30 *****************************************)
\* The file the last ColonyGame.load_game() could not load: none at the
\* path, or a record that fails validation.
LoadFailed == last.val = None \/ ~validate_save_data(last.val[1])

\* C30: after ColonyGame.load_game() on a missing file or an invalid record
\* the session is the one start_new_game() produces: the starting amounts,
\* the starting structure counts and sol = 0.
FailedLoadStartsNewGame ==
    (last.op = "colony.load_game" /\ LoadFailed) => Current = load_new_game

(***************************** production per tick *************************)
\* add_resource('gold') with no cap and rate 0, add_resource('wood', 4.0,
\* max_storage=4.0), and a farm type paid in wood that produces r gold per
\* second and consumes nothing.
InitYield ==
    /\ resources = [n \in {"gold", "wood"} |->
                      IF n = "gold" THEN Resource(n, 0, None, 0)
                      ELSE Resource(n, 4, Some(4), 0)]
    /\ \E r \in 1..MaxRate + 1 :
          buildings = [n \in {"farm"} |->
                         Building(n, Cost1("wood", 1), Cost1("gold", r),
                                  EmptyDict, TRUE, None)]
    /\ units = EmptyDict
    /\ upgrades = EmptyDict
    /\ metadata = NewMetadata
    /\ save_file = None
    /\ saved_from = None
    /\ game2 = None
    /\ purchase_log = [n \in DOMAIN upgrades |-> 0]
    /\ observers = NoObservers
    /\ InitSched
    /\ last = Call("init", "", 0, EmptyDict, TRUE, 0, << >>)

NextYield ==
    \/ BuildOne
    \/ DemolishOne
    \/ Update

SpecYield == InitYield /\ [][NextYield]_vars

(***************************** C31 *****************************************)
\* What the structures owned before the last update produce of gold per
\* second: n * r.
YieldRate == Rate(last.pre.buildings, "produces", "gold")

\* C31: gold is registered with rate 0 and no cap, n structures are owned
\* that each produce r gold per second, nothing consumes gold: one
\* update(dt) raises the amount of gold by exactly n * r * dt.
ProductionCreditedOnce ==
    last.op = "update"
    => resources["gold"].amount
          = last.pre.resources["gold"].amount + YieldRate * last.n

(***************************** C32 *****************************************)
\* The resources some registered structure type produces or consumes.
Traded ==
    {r \in DOMAIN resources :
        \E n \in DOMAIN buildings :
            r \in DOMAIN buildings[n].produces \cup DOMAIN buildings[n].consumes}

\* C32: after a successful build or demolish the published generation_rate
\* of every resource a structure type produces or consumes is
\* max(0, total production - total consumption) over the structures owned
\* now; after the last producer is demolished it is 0.
PublishedRateIsNetOfOwned ==
    (last.op \in {"build", "demolish"} /\ last.ret)
    => \A r \in Traded :
          resources[r].generation_rate
             = Max(0, Rate(buildings, "produces", r)
                        - Rate(buildings, "consumes", r))

(***************************** acquisitions under observation **************)
\* The ledger as an on_build observer reads it when build calls
\* _notify_build: the cost is spent and the count incremented, and
\* _update_production_rates has not run yet.
ledger_at_notify_build(blds, res, name, count) ==
    spend_multiple(res, Building_get_cost(blds[name], count)).resources

\* The ledger as an on_recruit observer reads it when recruit calls
\* _notify_recruit.
ledger_at_notify_recruit(uns, res, name, count) ==
    spend_multiple(res, Unit_get_cost(uns[name], count)).resources

\* A farm that produces gold and a peasant that produces wood, each paid in
\* the other resource, and one observer registered with on_build and
\* on_recruit that reads the ledger.
InitAcquire ==
    /\ resources = [n \in {"gold", "wood"} |-> Resource(n, 3, Some(4), 0)]
    /\ buildings = [n \in {"farm"} |->
                      Building(n, Cost1("wood", 1), Cost1("gold", 1),
                               EmptyDict, TRUE, None)]
    /\ units = [n \in {"peasant"} |->
                  Unit(n, Cost1("gold", 1), Cost1("wood", 1), EmptyDict,
                       TRUE, None)]
    /\ upgrades = EmptyDict
    /\ metadata = NewMetadata
    /\ save_file = None
    /\ saved_from = None
    /\ game2 = None
    /\ purchase_log = [n \in DOMAIN upgrades |-> 0]
    /\ observers = [NoObservers EXCEPT !.build = <<"stats">>,
                                       !.recruit = <<"stats">>]
    /\ InitSched
    /\ last = Call("init", "", 0, EmptyDict, TRUE, 0, << >>)

\* buildings.build(name): seen is the ledger the observer read, if it was
\* called.
WatchedBuild ==
    \E name \in DOMAIN buildings :
        LET r == build(buildings, resources, name, 1)
        IN /\ CountsInRange(r.buildings)
           /\ RatesInRange(r.resources)
           /\ buildings' = r.buildings
           /\ resources' = r.resources
           /\ last' = Call("build", name, 1, EmptyDict, r.ret, 0, r.notes)
                        @@ [seen |-> IF r.ret
                                     THEN Some(ledger_at_notify_build(
                                                 buildings, resources, name, 1))
                                     ELSE None]
           /\ UNCHANGED <<units, upgrades, metadata, save_file, saved_from,
                          game2, purchase_log, sched, observers>>

\* units.recruit(name)
WatchedRecruit ==
    \E name \in DOMAIN units :
        LET r == recruit(units, resources, name, 1)
        IN /\ CountsInRange(r.units)
           /\ RatesInRange(r.resources)
           /\ units' = r.units
           /\ resources' = r.resources
           /\ last' = Call("recruit", name, 1, EmptyDict, r.ret, 0, r.notes)
                        @@ [seen |-> IF r.ret
                                     THEN Some(ledger_at_notify_recruit(
                                                 units, resources, name, 1))
                                     ELSE None]
           /\ UNCHANGED <<buildings, upgrades, metadata, save_file, saved_from,
                          game2, purchase_log, sched, observers>>

NextAcquire ==
    \/ WatchedBuild
    \/ WatchedRecruit
    \/ DemolishOne
    \/ DismissOne
    \/ Earn

SpecAcquire == InitAcquire /\ [][NextAcquire]_vars

(***************************** C33 *****************************************)
\* C33: a successful build / recruit spends the cost, increments the count,
\* recomputes the aggregate rates and then notifies its observers: the
\* generation rates the observer reads are the recomputed ones, those the
\* ledger holds when the call returns.
ObserverSeesRecomputedRates ==
    (last.op \in {"build", "recruit"} /\ last.ret)
    => \A r \in DOMAIN resources :
          last.seen[1][r].generation_rate = resources[r].generation_rate

(***************************** the tier of an upgrade **********************)
\* get_upgrade_tree_tier(name, visited): the tier and the visited set, which
\* is one object shared by every call of the walk.  upgrade.prerequisites is
\* a set; the generator iterates it in an order the build chooses, given
\* here as the sequence order of all names.
RECURSIVE get_upgrade_tree_tier(_, _, _, _)
RECURSIVE max_prereq_tier(_, _, _, _, _)
get_upgrade_tree_tier(upgs, name, visited, order) ==
    IF name \notin DOMAIN upgs \/ name \in visited
    THEN [tier |-> 0, visited |-> visited]
    ELSE LET added == visited \cup {name}
         IN IF upgs[name].prerequisites = {}
            THEN [tier |-> 0, visited |-> added]
            ELSE LET m == max_prereq_tier(
                             upgs,
                             SelectSeq(order,
                                       LAMBDA p : p \in upgs[name].prerequisites),
                             added, order, 0 - 1)
                 IN [tier |-> m.tier + 1, visited |-> m.visited]

\* max(get_upgrade_tree_tier(prereq, visited) for prereq in prereqs,
\* default=-1), best being the maximum so far.
max_prereq_tier(upgs, prereqs, visited, order, best) ==
    IF prereqs = << >>
    THEN [tier |-> best, visited |-> visited]
    ELSE LET one == get_upgrade_tree_tier(upgs, Head(prereqs), visited, order)
         IN max_prereq_tier(upgs, Tail(prereqs), one.visited, order,
                            Max(best, one.tier))

\* The upgrades of the tier graphs, in an order every graph's edges respect.
TierNames == <<"basic", "advanced", "training", "drill">>

\* The orders in which a set of these names can be iterated.
IterationOrders ==
    {o \in [1..Len(TierNames) -> ListToSet(TierNames)] :
        \A i, j \in 1..Len(TierNames) : i # j => o[i] # o[j]}

\* register_upgrade(name, cost={}, prerequisites=...) for each name: every
\* acyclic graph in which an upgrade's prerequisites come before it.
InitTiers ==
    /\ \E pre \in [1..Len(TierNames) -> SUBSET ListToSet(TierNames)] :
          /\ \A i \in 1..Len(TierNames) :
                pre[i] \subseteq {TierNames[j] : j \in 1..(i - 1)}
          /\ upgrades = [n \in ListToSet(TierNames) |->
                           Upgrade(n, EmptyDict, FALSE,
                                   pre[CHOOSE i \in 1..Len(TierNames) :
                                          TierNames[i] = n],
                                   << >>, FALSE, None)]
    /\ resources = EmptyDict
    /\ buildings = EmptyDict
    /\ units = EmptyDict
    /\ metadata = NewMetadata
    /\ save_file = None
    /\ saved_from = None
    /\ game2 = None
    /\ purchase_log = [n \in DOMAIN upgrades |-> 0]
    /\ observers = NoObservers
    /\ InitSched
    /\ last = Call("init", "", 0, EmptyDict, TRUE, 0, << >>)

\* upgrades.get_upgrade_tree_tier(name) in a process whose sets iterate in
\* the order recorded as costs.
GetUpgradeTreeTier ==
    \E name \in ListToSet(TierNames), order \in IterationOrders :
        /\ last' = Call("get_upgrade_tree_tier", name, 0, order, TRUE,
                        get_upgrade_tree_tier(upgrades, name, {}, order).tier,
                        << >>)
        /\ UNCHANGED <<resources, buildings, units, upgrades, metadata,
                       save_file, saved_from, game2, purchase_log, sched,
                       observers>>

NextTiers == GetUpgradeTreeTier

SpecTiers == InitTiers /\ [][NextTiers]_vars

(***************************** C34 *****************************************)
\* The length of the longest prerequisite chain below an upgrade.
RECURSIVE Depth(_, _)
Depth(upgs, name) ==
    IF upgs[name].prerequisites = {} THEN 0
    ELSE 1 + CHOOSE d \in 0..Len(TierNames) :
                 /\ \E p \in upgs[name].prerequisites : Depth(upgs, p) = d
                 /\ \A p \in upgs[name].prerequisites : Depth(upgs, p) <= d

\* C34: in an acyclic prerequisite graph get_upgrade_tree_tier(name) is 0
\* for an upgrade without prerequisites and otherwise 1 + the largest tier
\* of its prerequisites, in whatever order the prerequisites are iterated,
\* also when two prerequisites share an ancestor.
TierIsLongestChain ==
    last.op = "get_upgrade_tree_tier" => last.val = Depth(upgrades, last.name)

(***************************** signed deltas *******************************)
\* Amounts are explored from -MaxAmount to 2 * MaxAmount.
SignedRange(res) ==
    \A n \in DOMAIN res :
        res[n].amount \in (0 - MaxAmount)..(2 * MaxAmount)

SignedCall(op, name, amount, r) ==
    /\ SignedRange(r.resources)
    /\ resources' = r.resources
    /\ last' = Call(op, name, amount, EmptyDict, r.ret, r.val, r.notes)
    /\ UNCHANGED <<buildings, units, upgrades, metadata, save_file, saved_from,
                   game2, purchase_log, sched, observers>>

\* resources.add(name, amount) with any numeric amount
AddSigned ==
    \E name \in DOMAIN resources, amount \in (0 - MaxDelta)..MaxDelta :
        SignedCall("add", name, amount, add(resources, name, amount))

\* resources.spend(name, amount) with any numeric amount
SpendSigned ==
    \E name \in DOMAIN resources, amount \in (0 - MaxDelta)..MaxDelta :
        SignedCall("spend", name, amount, spend(resources, name, amount))

NextSigned ==
    \/ AddSigned
    \/ SpendSigned

SpecSigned == InitLedger /\ [][NextSigned]_vars

(***************************** C35 *****************************************)
\* C35: after any sequence of add and spend calls with signed deltas every
\* amount is at least 0 and at most max_storage, and a spend did not raise
\* the amount it was asked to spend.
BoundsUnderSignedDeltas ==
    /\ \A n \in DOMAIN resources :
          /\ resources[n].amount >= 0
          /\ resources[n].max_storage # None
                => resources[n].amount <= resources[n].max_storage[1]
    /\ last.op = "spend"
          => resources[last.name].amount <= last.pre.resources[last.name].amount

(***************************** signed counts *******************************)
\* Counts are explored from -MaxN to 2 * MaxN.
SignedCounts(entities) ==
    \A n \in DOMAIN entities : entities[n].count \in (0 - MaxN)..(2 * MaxN)

\* buildings.build(name, count) with any integer count
BuildAny ==
    \E name \in DOMAIN buildings, count \in (0 - MaxN)..MaxN :
        LET r == build(buildings, resources, name, count)
        IN /\ SignedCounts(r.buildings)
           /\ SignedRange(r.resources)
           /\ RatesInRange(r.resources)
           /\ BuildingCall("build", name, count, r)

\* buildings.demolish(name, count) with any integer count
DemolishAny ==
    \E name \in DOMAIN buildings, count \in (0 - MaxN)..MaxN :
        LET r == demolish(buildings, resources, name, count)
        IN /\ SignedCounts(r.buildings)
           /\ RatesInRange(r.resources)
           /\ BuildingCall("demolish", name, count, r)

\* units.recruit(name, count) with any integer count
RecruitAny ==
    \E name \in DOMAIN units, count \in (0 - MaxN)..MaxN :
        LET r == recruit(units, resources, name, count)
        IN /\ SignedCounts(r.units)
           /\ SignedRange(r.resources)
           /\ RatesInRange(r.resources)
           /\ UnitCall("recruit", name, count, r)

\* units.dismiss(name, count) with any integer count
DismissAny ==
    \E name \in DOMAIN units, count \in (0 - MaxN)..MaxN :
        LET r == dismiss(units, resources, name, count)
        IN /\ SignedCounts(r.units)
           /\ RatesInRange(r.resources)
           /\ UnitCall("dismiss", name, count, r)

\* A farm and a peasant, each paid in gold, at most two of each.
InitCounts ==
    /\ resources = [n \in {"gold"} |-> Resource(n, 2, Some(4), 0)]
    /\ buildings = [n \in {"farm"} |->
                      Building(n, Cost1("gold", 1), EmptyDict, EmptyDict,
                               TRUE, Some(2))]
    /\ units = [n \in {"peasant"} |->
                  Unit(n, Cost1("gold", 1), EmptyDict, EmptyDict, TRUE, Some(2))]
    /\ upgrades = EmptyDict
    /\ metadata = NewMetadata
    /\ save_file = None
    /\ saved_from = None
    /\ game2 = None
    /\ purchase_log = [n \in DOMAIN upgrades |-> 0]
    /\ observers = NoObservers
    /\ InitSched
    /\ last = Call("init", "", 0, EmptyDict, TRUE, 0, << >>)

NextCounts ==
    \/ BuildAny
    \/ DemolishAny
    \/ RecruitAny
    \/ DismissAny

SpecCounts == InitCounts /\ [][NextCounts]_vars

(***************************** C36 *****************************************)
\* 0 <= count, and count <= max_count where one is set.
CountsBounded(entities) ==
    \A n \in DOMAIN entities :
        /\ entities[n].count >= 0
        /\ entities[n].max_count # None
              => entities[n].count <= entities[n].max_count[1]

\* C36: for any integer count argument build / recruit / demolish / dismiss
\* keep 0 <= count <= max_count, demolish / dismiss do not increase an owned
\* count, and none of the four increases a resource amount.
SafeForAnyCount ==
    /\ CountsBounded(buildings)
    /\ CountsBounded(units)
    /\ last.op = "demolish"
          => buildings[last.name].count <= last.pre.buildings[last.name].count
    /\ last.op = "dismiss"
          => units[last.name].count <= last.pre.units[last.name].count
    /\ last.op \in {"build", "recruit", "demolish", "dismiss"}
          => \A r \in DOMAIN resources :
                resources[r].amount <= last.pre.resources[r].amount

(***************************** re-entrant observers ************************)
\* The transaction observers of this session: "log" only records; "tax" is
\*   def tax(name, amount, kind):
\*       if name == 'gold' and kind == 'spend':
\*           resources.spend('wood', resources.get_amount('wood'))
\* The ledger after _notify_transaction called the observers cbs with note.
RECURSIVE notify_transaction(_, _, _)
notify_transaction(res, cbs, note) ==
    IF cbs = << >> THEN res
    ELSE LET after == IF Head(cbs) = "tax" /\ note.name = "gold"
                         /\ note.kind = "spend"
                      THEN spend(res, "wood", get_amount(res, "wood")).resources
                      ELSE res
         IN notify_transaction(after, Tail(cbs), note)

\* spend(name, amount) with its observers run inside the call.
spend_notified(res, cbs, name, amount) ==
    LET r == spend(res, name, amount)
    IN IF r.ret
       THEN [r EXCEPT !.resources = notify_transaction(r.resources, cbs,
                                                       r.notes[1])]
       ELSE r

\* The "Spend all" loop with the observers run inside each spend; paid is
\* the set of cost entries whose spend returned True.
RECURSIVE spend_each_notified(_, _, _, _)
spend_each_notified(res, cbs, costs, ks) ==
    IF ks = << >>
    THEN [resources |-> res, paid |-> {}]
    ELSE LET one == spend_notified(res, cbs, Head(ks), costs[Head(ks)])
             rest == spend_each_notified(one.resources, cbs, costs, Tail(ks))
         IN [resources |-> rest.resources,
             paid |-> rest.paid \cup (IF one.ret THEN {Head(ks)} ELSE {})]

\* spend_multiple(costs) with the observers run inside each spend.
spend_multiple_notified(res, cbs, costs) ==
    IF ~can_afford(res, costs)
    THEN [resources |-> res, ret |-> FALSE, paid |-> {}]
    ELSE LET all == spend_each_notified(res, cbs, costs, keys(costs))
         IN [resources |-> all.resources, ret |-> TRUE, paid |-> all.paid]

\* build(name, count) with the ledger's observers run inside each spend.
build_notified(blds, res, cbs, name, count) ==
    IF ~can_build(blds, res, name, count)
    THEN [buildings |-> blds, resources |-> res, ret |-> FALSE, paid |-> {}]
    ELSE LET paid == spend_multiple_notified(res, cbs,
                                             Building_get_cost(blds[name], count))
             built == [blds EXCEPT ![name].count = @ + count]
         IN IF ~paid.ret
            THEN [buildings |-> blds, resources |-> paid.resources,
                  ret |-> FALSE, paid |-> paid.paid]
            ELSE [buildings |-> built,
                  resources |-> Building_update_production_rates(built,
                                                                 paid.resources),
                  ret |-> TRUE, paid |-> paid.paid]

\* gold and wood, a farm paid in both, and one transaction observer
\* registered with the ledger.
InitReentrant ==
    /\ resources = [n \in {"gold", "wood"} |-> Resource(n, 2, Some(3), 0)]
    /\ buildings = [n \in {"farm"} |->
                      Building(n, Cost2("gold", 1, "wood", 1), EmptyDict,
                               EmptyDict, TRUE, None)]
    /\ units = EmptyDict
    /\ upgrades = EmptyDict
    /\ metadata = NewMetadata
    /\ save_file = None
    /\ saved_from = None
    /\ game2 = None
    /\ purchase_log = [n \in DOMAIN upgrades |-> 0]
    /\ \E cb \in {"log", "tax"} :
          observers = [NoObservers EXCEPT !.transaction = <<cb>>]
    /\ InitSched
    /\ last = Call("init", "", 0, EmptyDict, TRUE, 0, << >>)

\* resources.spend_multiple(costs)
SpendMultipleNotified ==
    \E costs \in CostMaps :
        LET r == spend_multiple_notified(resources, observers.transaction, costs)
        IN /\ resources' = r.resources
           /\ last' = Call("spend_multiple", "", 0, costs, r.ret, 0, << >>)
                        @@ [paid |-> r.paid]
           /\ UNCHANGED <<buildings, units, upgrades, metadata, save_file,
                          saved_from, game2, purchase_log, sched, observers>>

\* buildings.build('farm')
BuildNotified ==
    LET r == build_notified(buildings, resources, observers.transaction,
                            "farm", 1)
    IN /\ CountsInRange(r.buildings)
       /\ resources' = r.resources
       /\ buildings' = r.buildings
       /\ last' = Call("build", "farm", 1,
                       Building_get_cost(buildings["farm"], 1), r.ret, 0, << >>)
                    @@ [paid |-> r.paid]
       /\ UNCHANGED <<units, upgrades, metadata, save_file, saved_from, game2,
                      purchase_log, sched, observers>>

NextReentrant ==
    \/ SpendMultipleNotified
    \/ BuildNotified
    \/ Earn

SpecReentrant == InitReentrant /\ [][NextReentrant]_vars

(***************************** C37 *****************************************)
\* C37: also when a transaction observer spends from the ledger while
\* spend_multiple runs, a spend_multiple or build that returns True has
\* deducted every entry of the cost, never only some of them.
AtomicUnderReentrantObservers ==
    (last.op \in {"spend_multiple", "build"} /\ last.ret)
    => last.paid = DOMAIN last.costs

(***************************** C38 *****************************************)
\* C38: after save_game then load_game of that save, every resource's
\* generation_rate is what it was when the game was saved, also when
\* workers with production are owned.
LoadKeepsPublishedRates ==
    (last.op = "game.load_game" /\ last.ret /\ save_file # None
        /\ last.val = save_file)
    => \A r \in DOMAIN resources :
          resources[r].generation_rate
             = saved_from[1].resources[r].generation_rate

(***************************** the Sol counter *****************************)
\* config.SOL_LENGTH, in seconds.
SOL_LENGTH == 60

MaxSols == 3       \* Sols of simulated time explored

\* The delta_times of the ticks, in seconds: a third of a Sol, two thirds, one,
\* two Sols.
DeltaTimes ==
    {SOL_LENGTH \div 3, 2 * (SOL_LENGTH \div 3), SOL_LENGTH, 2 * SOL_LENGTH}

\* _calculate_production_rates(): every resource's generation_rate is
\* assigned production - consumption of the owned structures.
calculate_production_rates(blds, res) ==
    LET total_production == Building_get_total_production(blds)
        total_consumption == Building_get_total_consumption(blds)
    IN [n \in DOMAIN res |->
          [res[n] EXCEPT !.generation_rate =
              (IF n \in DOMAIN total_production THEN total_production[n] ELSE 0)
            - (IF n \in DOMAIN total_consumption THEN total_consumption[n] ELSE 0)]]

\* ColonyGame._on_update(delta_time): the coordinator's update, the Sol
\* timer and counter, the rates for display.
on_update(g, timer, delta_time) ==
    LET updated == update(g, delta_time).game
        rolled == timer + delta_time >= SOL_LENGTH
        meta == IF rolled
                THEN [updated.metadata EXCEPT !.sol = @ + 1]
                ELSE updated.metadata
    IN [game |-> Game(calculate_production_rates(updated.buildings,
                                                 updated.resources),
                      updated.buildings, updated.units, updated.upgrades, meta),
        sol_timer |-> IF rolled THEN 0 ELSE timer + delta_time]

\* A session started with [1] New Colony.
InitSol ==
    /\ resources = load_new_game.resources
    /\ buildings = load_new_game.buildings
    /\ units = load_new_game.units
    /\ upgrades = load_new_game.upgrades
    /\ metadata = load_new_game.metadata
    /\ save_file = None
    /\ saved_from = None
    /\ game2 = None
    /\ purchase_log = [n \in DOMAIN upgrades |-> 0]
    /\ observers = NoObservers
    /\ InitSched
    /\ last = Call("init", "", 0, EmptyDict, TRUE, 0, << >>)

\* A tick of the game loop calls _on_update(delta_time); simulated time is
\* explored up to MaxSols Sols.
OnUpdate ==
    \E delta_time \in DeltaTimes :
        LET r == on_update(Current, sol_timer, delta_time)
        IN /\ metadata.total_playtime + delta_time <= MaxSols * SOL_LENGTH
           /\ resources' = r.game.resources
           /\ metadata' = r.game.metadata
           /\ sol_timer' = r.sol_timer
           /\ last' = Call("on_update", "", delta_time, EmptyDict, TRUE, 0, << >>)
           /\ UNCHANGED <<buildings, units, upgrades, save_file, saved_from,
                          game2, purchase_log, observers, tick_system, clock,
                          tick_log>>

NextSol == OnUpdate

SpecSol == InitSol /\ [][NextSol]_vars

(***************************** C39 *****************************************)
\* C39: after any sequence of ticks the Sol counter is the number of whole
\* SOL_LENGTH periods in the simulated time since the session started, and
\* a tick does not lower it.
SolCountsWholePeriods ==
    /\ metadata.sol = metadata.total_playtime \div SOL_LENGTH
    /\ last.op = "on_update" => metadata.sol >= last.pre.metadata.sol

(***************************** a graph that grows **************************)
\* upgrades.register_upgrade(name, cost={}): the prerequisite ghost_dep names
\* is registered late (locked, free), or a registered name is tried again.
RegisterPrerequisite ==
    \E name \in {"nonexistent", "basic"} :
        LET r == register_upgrade(upgrades, name, EmptyDict, EmptyDict, FALSE,
                                  {}, << >>, FALSE, None)
        IN /\ upgrades' = r.upgrades
           /\ purchase_log' = [n \in DOMAIN r.upgrades |->
                                 IF n \in DOMAIN purchase_log
                                 THEN purchase_log[n] ELSE 0]
           /\ Registration("register_upgrade", name, r.raised)
           /\ UNCHANGED <<resources, buildings, units>>

NextGraph ==
    \/ AddWhole
    \/ RegisterPrerequisite
    \/ UnlockUpgrade
    \/ Purchase

SpecGraph == InitUpgrades /\ [][NextGraph]_vars

(***************************** C40 *****************************************)
\* C40: in every state reached through register_upgrade, unlock_upgrade and
\* purchase calls, an upgrade that has been purchased (purchased, or
\* times_purchased > 0) is unlocked and every prerequisite of it has been
\* purchased.
PurchasedHaveRequirements ==
    \A n \in DOMAIN upgrades :
        Bought(upgrades, n)
        => /\ upgrades[n].unlocked
           /\ \A p \in upgrades[n].prerequisites : Bought(upgrades, p)

\* The prerequisite of ghost_dep was registered after ghost_dep, unlocked
\* and purchased, and then ghost_dep was purchased; advanced was purchased
\* after basic.
LatePrerequisiteWitness ==
    /\ last.op = "purchase"
    /\ last.name = "ghost_dep"
    /\ last.ret
    /\ "nonexistent" \notin DOMAIN UpgradeCatalog
    /\ upgrades["nonexistent"].purchased
    /\ upgrades["advanced"].purchased

====
